---- MODULE Spec2Model ----
(***************************************************************************)
(* A model of the insurance-analytics scripts of kaim-week-3.              *)
(*                                                                         *)
(* Every script is a batch job over a table read from a CSV file.  The     *)
(* table is modelled as a data frame: a function from column names to a    *)
(* dtype and a sequence of cells.  The pandas calls the scripts make       *)
(* (read_csv, to_numeric, astype(str), str.strip/lower/capitalize, map,    *)
(* mode, median, fillna, quantile, to_csv) are modelled by what pandas 2.x *)
(* does on the modelled cell values.  Numbers are exact fixed-point        *)
(* integers (see Scale); floating-point rounding is not modelled.          *)
(***************************************************************************)
EXTENDS Integers, Sequences, FiniteSets, TLC

VARIABLES
    cPc,        \* DataCleaner.process: position in the script
    cInFile,    \* main_data/ml.csv: "missing" or a CSV table
    cOutFile,   \* main_data/cleaned_ml.csv: "missing" or a CSV table
    cData,      \* DataCleaner.data: NoData or a data frame
    cRaw,       \* the data frame as loaded and assessed, before clean_data
    cRun,       \* number of the DataCleaner.process run in progress
    cFirst,     \* the output file of the first run
    cRaised     \* the exception that ended DataCleaner.process, or "none"

cleanVars == <<cPc, cInFile, cOutFile, cData, cRaw, cRun, cFirst, cRaised>>

VARIABLES
    oPc,        \* outlier_detection_box_plots.py: position in the script
    oFile,      \* main_data/cleaned_ml.csv as the script finds it
    oData,      \* OutlierDetector.data
    oReport,    \* what detect_outliers printed, by column
    oScript,    \* which of the two outlier scripts runs
    oPlots      \* number of box plots saved, by column

outlierVars == <<oPc, oFile, oData, oReport, oScript, oPlots>>

VARIABLES
    tPc,        \* a task-3 script: position in the script
    tScript,    \* which task-3 script runs
    tParams,    \* the columns and group values the script is called with
    tFile,      \* main_data/cleaned_ml.csv as the script finds it
    tData,      \* the script object's data
    tLast,      \* the result file written last
    tWritten,   \* the names of the result files written by this process
    tMemo,      \* the t-tests scipy has computed: samples and outcome
    tFirstT,    \* the first outcome of every t-test site
    tRun,       \* number of the run in progress
    tRaised,    \* the exception that ended the script, or "none"
    tSeg        \* group_a and group_b of the last segmentation, and their reported sizes

testVars ==
    <<tPc, tScript, tParams, tFile, tData, tLast, tWritten, tMemo, tFirstT, tRun, tRaised,
      tSeg>>

VARIABLES
    vPc,          \* DataConverter.process: position in the script
    vInput,       \* data/ml.txt: "missing" or a pipe-separated table
    vReadError,   \* the exception read_csv raises on the input, or "none"
    vWriteError,  \* the exception to_csv raises on the output, or "none"
    vOutput,      \* main_data/ml.csv
    vOutBefore,   \* main_data/ml.csv when process was called
    vData,        \* the value load_data returned
    vLoads,       \* calls of pd.read_csv in this call of process
    vPrinted,     \* what the script printed in this call of process
    vRun,         \* number of the call of process in progress
    vRaised       \* the exception that left process, or "none"

convVars ==
    <<vPc, vInput, vReadError, vWriteError, vOutput, vOutBefore, vData, vLoads,
      vPrinted, vRun, vRaised>>

VARIABLES
    sPc,        \* any script of the repository: position in the script
    sScript,    \* which script runs, with its handling of a missing file
    sExists,    \* whether the script's input file exists
    sPrinted,   \* whether the script printed a message about the file
    sStop,      \* how the script stopped, or "running"
    sSteps,     \* analysis steps run
    sOutputs    \* output files written

scriptVars == <<sPc, sScript, sExists, sPrinted, sStop, sSteps, sOutputs>>

VARIABLES
    rSite,      \* the write statement whose files are observed
    rClock,     \* the time, in ticks
    rFiles,     \* the files at the paths rSite can write, with the tick of their writing
    rData,      \* who wrote main_data/cleaned_ml.csv and main_data/ml.csv last
    rLogs       \* the paths the calls of log_preparation_details of one run wrote

resultVars == <<rSite, rClock, rFiles, rData, rLogs>>

VARIABLES
    mPc,        \* position of the task-4 script
    mScript,    \* the task-4 script that runs
    mFile,      \* main_data/cleaned_ml.csv
    mData,      \* self.data
    mX,         \* X_train, the feature matrix of the training rows
    mFit,       \* whether fit has been called on mX
    mRaised     \* the exception that ended the script

modelVars == <<mPc, mScript, mFile, mData, mX, mFit, mRaised>>

vars == <<cleanVars, outlierVars, testVars, convVars, scriptVars, resultVars, modelVars>>

\* The variables of the other scripts, which a script leaves alone.
nonCleanVars == <<outlierVars, testVars, convVars, scriptVars, resultVars, modelVars>>
nonOutlierVars == <<cleanVars, testVars, convVars, scriptVars, resultVars, modelVars>>
nonTestVars == <<cleanVars, outlierVars, convVars, scriptVars, resultVars, modelVars>>
nonConvVars == <<cleanVars, outlierVars, testVars, scriptVars, resultVars, modelVars>>
nonScriptVars == <<cleanVars, outlierVars, testVars, convVars, resultVars, modelVars>>
nonResultVars == <<cleanVars, outlierVars, testVars, convVars, scriptVars, modelVars>>
nonModelVars == <<cleanVars, outlierVars, testVars, convVars, scriptVars, resultVars>>

-----------------------------------------------------------------------------
(* Bounds of the model.                                                    *)

\* Largest number of data rows of a raw table whose varied column is a text
\* column, and of one whose varied column is the numeric column TotalPremium.
MaxRows == 3
MaxNumRows == 4

\* Numbers are stored as integers, Scale units to 1, so that the medians, the
\* quartiles and the Tukey fences of whole-number data are exact.
Scale == 2 * 2 * 2

-----------------------------------------------------------------------------
(* Cells.  Every cell is a record of one shape, so that any two cells can  *)
(* be compared.                                                            *)

NaN == [k |-> "nan", n |-> 0, s |-> ""]
Num(n) == [k |-> "num", n |-> n, s |-> ""]
Bool(b) == [k |-> "bool", n |-> IF b THEN 1 ELSE 0, s |-> ""]
Str(s) == [k |-> "str", n |-> 0, s |-> s]
\* The decimal text of the number n: form "int" is "1", form "float" is "1.0".
NumStr(n, form) == [k |-> "numstr", n |-> n, s |-> form]
Date(d) == [k |-> "date", n |-> d, s |-> ""]

IsNull(c) == c.k = "nan"
IsText(c) == c.k \in {"str", "numstr"}

NoData == [present |-> FALSE, dtype |-> <<>>, cells |-> <<>>]
Frame(dtype, cells) == [present |-> TRUE, dtype |-> dtype, cells |-> cells]
Columns(df) == DOMAIN df.cells

Range(seq) == {seq[i] : i \in DOMAIN seq}
MapSeq(Op(_), seq) == [i \in DOMAIN seq |-> Op(seq[i])]

-----------------------------------------------------------------------------
(* Python string methods on the strings of the model.                      *)

str_strip(s) ==
    CASE s = " YES " -> "YES"
      [] s = " bmw" -> "bmw"
      [] OTHER -> s

str_lower(s) ==
    CASE s = "YES" -> "yes"
      [] s = " YES " -> " yes "
      [] s = "No" -> "no"
      [] s = "True" -> "true"
      [] s = "False" -> "false"
      [] s = "Nan" -> "nan"
      [] s = "Maybe" -> "maybe"
      [] s = "AUDI" -> "audi"
      [] s = "Audi" -> "audi"
      [] s = "Bmw" -> "bmw"
      [] s = "Garbage" -> "garbage"
      [] OTHER -> s

str_capitalize(s) ==
    CASE s = "YES" -> "Yes"
      [] s = "yes" -> "Yes"
      [] s = "no" -> "No"
      [] s = "true" -> "True"
      [] s = "false" -> "False"
      [] s = "nan" -> "Nan"
      [] s = "maybe" -> "Maybe"
      [] s = "AUDI" -> "Audi"
      [] s = "audi" -> "Audi"
      [] s = "bmw" -> "Bmw"
      [] s = "garbage" -> "Garbage"
      [] OTHER -> s

\* Python's order of the strings of the model (code points: space, digits,
\* upper case, lower case).
StrOrder ==
    << "", " YES ", " bmw", "2015-03-01", "2015-04-01", "6/2002", "AUDI",
       "Audi", "Bmw", "False", "Female", "Garbage", "Male", "Maybe", "Nan",
       "No", "True", "YES",
       "Yes", "audi", "bmw", "false", "garbage", "maybe", "nan", "no", "true",
       "yes" >>

StrRank(s) == CHOOSE i \in DOMAIN StrOrder : StrOrder[i] = s

\* Sort key of a text cell: the text of a number sorts before the words.
TextKey(c) == IF c.k = "numstr" THEN c.n ELSE 1000 + StrRank(c.s)

-----------------------------------------------------------------------------
(* Sorting and order statistics on sequences of integers.                  *)

RECURSIVE Insert(_, _)
Insert(x, seq) ==
    IF seq = <<>> THEN <<x>>
    ELSE IF x <= Head(seq) THEN <<x>> \o seq
    ELSE <<Head(seq)>> \o Insert(x, Tail(seq))

RECURSIVE SortInts(_)
SortInts(seq) == IF seq = <<>> THEN <<>> ELSE Insert(Head(seq), SortInts(Tail(seq)))

\* The numbers of the non-null cells of a column, in row order.
RECURSIVE NonNull(_)
NonNull(cells) ==
    IF cells = <<>> THEN <<>>
    ELSE IF IsNull(Head(cells)) THEN NonNull(Tail(cells))
    ELSE <<Head(cells).n>> \o NonNull(Tail(cells))

RECURSIVE SumSeq(_)
SumSeq(seq) == IF seq = <<>> THEN 0 ELSE Head(seq) + SumSeq(Tail(seq))

\* Series.median(): skips nulls; the middle value, or the mean of the two
\* middle values; NaN when no value is left.
\* A median that takes the lower of the two middle values.
median_low(cells) ==
    LET v == SortInts(NonNull(cells))
        m == Len(v)
    IN  IF m = 0 THEN NaN ELSE Num(v[(m + 1) \div 2])

median(cells) ==
    LET v == SortInts(NonNull(cells))
        m == Len(v)
    IN  IF m = 0 THEN NaN
        ELSE IF m % 2 = 1 THEN Num(v[(m + 1) \div 2])
        ELSE Num((v[m \div 2] + v[m \div 2 + 1]) \div 2)

\* Series.fillna(value): a null value fills nothing.
fillna(cells, value) ==
    IF IsNull(value) THEN cells
    ELSE [i \in DOMAIN cells |-> IF IsNull(cells[i]) THEN value ELSE cells[i]]

\* Series.mode(): the most frequent non-null values, sorted; <<>> when the
\* column has no non-null value.  Only text columns reach it in clean_data.
Count(cells, c) == Cardinality({i \in DOMAIN cells : cells[i] = c})

mode(cells) ==
    LET vals == {c \in Range(cells) : ~IsNull(c)}
        best == {c \in vals : \A d \in vals : Count(cells, d) <= Count(cells, c)}
        Key(c) == IF IsText(c) THEN TextKey(c) ELSE c.n
    IN  IF best = {} THEN <<>>
        ELSE <<CHOOSE c \in best : \A d \in best : Key(c) <= Key(d)>>

-----------------------------------------------------------------------------
(* CSV files.  A file is "missing" or a function from column names to the  *)
(* texts of the column's cells; an empty field is Str("").                 *)

Missing == [exists |-> FALSE, cells |-> <<>>]
CsvFile(cells) == [exists |-> TRUE, cells |-> cells]

\* Texts read_csv takes for a missing value ("Nan" is not one of them).
NAStrings == {"", "nan"}
TrueStrings == {"True", "true"}
FalseStrings == {"False", "false"}

csv_is_na(t) == t.k = "str" /\ t.s \in NAStrings
csv_is_bool(t) == t.k = "str" /\ t.s \in (TrueStrings \cup FalseStrings)

\* The dtype read_csv infers for a column of texts.
read_csv_dtype(texts) ==
    LET vals == {t \in Range(texts) : ~csv_is_na(t)}
        hasNA == \E t \in Range(texts) : csv_is_na(t)
    IN  IF vals = {} THEN "float64"
        ELSE IF \A t \in vals : t.k = "numstr"
             THEN IF ~hasNA /\ \A t \in vals : t.s = "int" THEN "int64" ELSE "float64"
        ELSE IF \A t \in vals : csv_is_bool(t)
             THEN IF hasNA THEN "object" ELSE "bool"
        ELSE "object"

read_csv_cell(t, dtype, allBool) ==
    IF csv_is_na(t) THEN NaN
    ELSE IF dtype \in {"int64", "float64"} THEN Num(t.n)
    ELSE IF allBool THEN Bool(t.s \in TrueStrings)
    ELSE t

\* pd.read_csv(path, low_memory=False) of an existing file.
read_csv(file) ==
    LET dt == [c \in DOMAIN file.cells |-> read_csv_dtype(file.cells[c])]
        allBool(c) == \A t \in Range(file.cells[c]) : csv_is_na(t) \/ csv_is_bool(t)
    IN  Frame(dt, [c \in DOMAIN file.cells |->
                     [i \in DOMAIN file.cells[c] |->
                        read_csv_cell(file.cells[c][i], dt[c], allBool(c))]])

DateText(d) == IF d = 1 THEN "2015-03-01" ELSE "2015-04-01"

to_csv_cell(c, dtype) ==
    CASE c.k = "nan" -> Str("")
      [] c.k = "num" -> NumStr(c.n, IF dtype = "float64" THEN "float" ELSE "int")
      [] c.k = "bool" -> Str(IF c.n = 1 THEN "True" ELSE "False")
      [] c.k = "date" -> Str(DateText(c.n))
      [] OTHER -> c

\* DataFrame.to_csv(path, index=False).
to_csv(df) ==
    CsvFile([c \in Columns(df) |->
               [i \in DOMAIN df.cells[c] |-> to_csv_cell(df.cells[c][i], df.dtype[c])]])

-----------------------------------------------------------------------------
(* pandas column operations.  A column is a dtype and a sequence of cells. *)

Col(df, c) == [dtype |-> df.dtype[c], cells |-> df.cells[c]]

\* df[c] = col for every column c of the set cs.
SetCols(df, cs, NewCol(_)) ==
    Frame([c \in Columns(df) |-> IF c \in cs THEN NewCol(c).dtype ELSE df.dtype[c]],
          [c \in Columns(df) |-> IF c \in cs THEN NewCol(c).cells ELSE df.cells[c]])

DropCols(df, cs) ==
    Frame([c \in Columns(df) \ cs |-> df.dtype[c]],
          [c \in Columns(df) \ cs |-> df.cells[c]])

NumericDtypes == {"int8", "int64", "float64"}

to_numeric_cell(c) ==
    CASE c.k = "num" -> c
      [] c.k = "numstr" -> Num(c.n)
      [] c.k = "bool" -> Num(c.n * Scale)
      [] OTHER -> NaN

\* pd.to_numeric(col, errors='coerce'), with downcast='integer' if downcast.
to_numeric(col, downcast) ==
    LET cells == MapSeq(to_numeric_cell, col.cells)
        noNull == \A i \in DOMAIN cells : ~IsNull(cells[i])
        whole == \A i \in DOMAIN cells : cells[i].n % Scale = 0
        intText == \A i \in DOMAIN cells : col.cells[i].k = "numstr" /\ col.cells[i].s = "int"
        parsed == IF col.dtype \in NumericDtypes THEN col.dtype
                  ELSE IF noNull /\ intText THEN "int64"
                  ELSE "float64"
    IN  IF col.dtype = "bool" THEN col
        ELSE [dtype |-> IF downcast /\ noNull /\ whole THEN "int8" ELSE parsed,
              cells |-> cells]

DateTexts == {"2015-03-01", "2015-04-01"}

to_datetime_cell(c) ==
    CASE c.k = "date" -> c
      [] c.k = "str" /\ c.s \in DateTexts -> Date(IF c.s = "2015-03-01" THEN 1 ELSE 2)
      [] OTHER -> NaN

\* pd.to_datetime(col, errors='coerce') of a column of texts or dates.
to_datetime(col) ==
    [dtype |-> "datetime64", cells |-> MapSeq(to_datetime_cell, col.cells)]

astype_str_cell(c, dtype) ==
    CASE c.k = "nan" -> Str("nan")
      [] c.k = "num" -> NumStr(c.n, IF dtype = "float64" THEN "float" ELSE "int")
      [] c.k = "bool" -> Str(IF c.n = 1 THEN "True" ELSE "False")
      [] c.k = "date" -> Str(DateText(c.n))
      [] OTHER -> c

\* Series.astype(str): a null becomes the text 'nan'.
astype_str(col) ==
    [dtype |-> "object",
     cells |-> [i \in DOMAIN col.cells |-> astype_str_cell(col.cells[i], col.dtype)]]

\* Series.str.<method>() of a column of texts (the text of a number has
\* neither blanks nor letters).
StrMethod(Op(_), c) == IF c.k = "str" THEN Str(Op(c.s)) ELSE c

strip(col) == [col EXCEPT !.cells = [i \in DOMAIN col.cells |-> StrMethod(str_strip, col.cells[i])]]
lower(col) == [col EXCEPT !.cells = [i \in DOMAIN col.cells |-> StrMethod(str_lower, col.cells[i])]]
capitalize(col) == [col EXCEPT !.cells = [i \in DOMAIN col.cells |-> StrMethod(str_capitalize, col.cells[i])]]

map_yes_no_cell(c) ==
    IF c = Str("yes") THEN Bool(TRUE)
    ELSE IF c = Str("no") THEN Bool(FALSE)
    ELSE NaN

\* Series.map({'yes': True, 'no': False}): a value that is no key maps to
\* null, and a result holding a null has dtype object instead of bool.
map_yes_no(col) ==
    LET cells == MapSeq(map_yes_no_cell, col.cells)
    IN  [dtype |-> IF \E i \in DOMAIN cells : IsNull(cells[i]) THEN "object" ELSE "bool",
         cells |-> cells]

-----------------------------------------------------------------------------
(* DataCleaner (load_and_clean_data.py).                                   *)

integer_columns == {"Cylinders", "NumberOfDoors"}

boolean_columns ==
    {"AlarmImmobiliser", "TrackingDevice", "CapitalOutstanding", "NewVehicle",
     "WrittenOff", "Rebuilt", "Converted", "CrossBorder"}

\* The columns clean_data reads by name: a missing one raises KeyError.
NamedColumns ==
    {"CapitalOutstanding", "TransactionMonth", "PostalCode"}
        \cup integer_columns \cup boolean_columns

\* The columns whose every value is null.
empty_columns(df) ==
    {c \in Columns(df) : \A i \in DOMAIN df.cells[c] : IsNull(df.cells[c][i])}

convert_capital_outstanding(df) ==
    SetCols(df, {"CapitalOutstanding"}, LAMBDA c : to_numeric(Col(df, c), FALSE))

convert_transaction_month(df) ==
    SetCols(df, {"TransactionMonth"}, LAMBDA c : to_datetime(Col(df, c)))

convert_integer_columns(df) ==
    SetCols(df, integer_columns, LAMBDA c : to_numeric(Col(df, c), TRUE))

convert_postal_code(df) ==
    SetCols(df, {"PostalCode"}, LAMBDA c : astype_str(Col(df, c)))

convert_boolean_columns(df) ==
    SetCols(df, boolean_columns,
            LAMBDA c : map_yes_no(lower(strip(astype_str(Col(df, c))))))

format_object_columns(df) ==
    SetCols(df, {c \in Columns(df) : df.dtype[c] = "object"},
            LAMBDA c : capitalize(strip(astype_str(Col(df, c)))))

\* The fill loop raises when mode() of a text column is empty.
fill_raises(df) ==
    \E c \in Columns(df) : df.dtype[c] = "object" /\ mode(df.cells[c]) = <<>>

fill_column(col) ==
    IF col.dtype = "object" THEN [col EXCEPT !.cells = fillna(col.cells, mode(col.cells)[1])]
    ELSE IF col.dtype \in {"float64", "int64"}
         THEN [col EXCEPT !.cells = fillna(col.cells, median(col.cells))]
    ELSE col

fill_missing_values(df) ==
    SetCols(df, Columns(df), LAMBDA c : fill_column(Col(df, c)))

formatted(df) ==
    format_object_columns(
        convert_boolean_columns(
            convert_postal_code(
                convert_integer_columns(
                    convert_transaction_month(
                        convert_capital_outstanding(df))))))

\* DataCleaner.clean_data on a loaded frame: the frame it leaves and the
\* exception it raises.  parse_vehicle_intro_date is defined and never
\* called, so VehicleIntroDate is only formatted as a text column.
clean_data(df) ==
    IF ~(NamedColumns \subseteq Columns(df))
        THEN [data |-> df, raised |-> "KeyError"]
    ELSE IF fill_raises(formatted(df))
        THEN [data |-> formatted(df), raised |-> "KeyError"]
    ELSE [data |-> fill_missing_values(formatted(df)), raised |-> "none"]

\* Whether pd.read_csv raises: FileNotFoundError on a missing file,
\* EmptyDataError on a file with no columns.  load_data catches both.
read_csv_raises(file) == ~file.exists \/ DOMAIN file.cells = {}

DataCleaner_load_data ==
    /\ cPc = "load"
    /\ cData' = IF read_csv_raises(cInFile) THEN cData ELSE read_csv(cInFile)
    /\ cPc' = "assess"
    /\ UNCHANGED <<cInFile, cOutFile, cRaw, cRun, cFirst, cRaised>>
    /\ UNCHANGED nonCleanVars

DataCleaner_assess_data_quality ==
    /\ cPc = "assess"
    /\ cData' = IF cData.present THEN DropCols(cData, empty_columns(cData)) ELSE cData
    /\ cRaw' = cData'
    /\ cPc' = "clean"
    /\ UNCHANGED <<cInFile, cOutFile, cRun, cFirst, cRaised>>
    /\ UNCHANGED nonCleanVars

DataCleaner_clean_data ==
    /\ cPc = "clean"
    /\ IF cData.present
         THEN /\ cData' = clean_data(cData).data
              /\ cRaised' = clean_data(cData).raised
              /\ cPc' = IF clean_data(cData).raised = "none" THEN "save" ELSE "done"
         ELSE /\ cPc' = "save"
              /\ UNCHANGED <<cData, cRaised>>
    /\ UNCHANGED <<cInFile, cOutFile, cRaw, cRun, cFirst>>
    /\ UNCHANGED nonCleanVars

\* A save that does not look at self.data.
save_unguarded(df) == TRUE

\* if self.data is not None, in save_cleaned_data
save_guard(df) == df.present

DataCleaner_save_cleaned_data ==
    /\ cPc = "save"
    /\ cOutFile' = IF save_guard(cData) THEN to_csv(cData) ELSE cOutFile
    /\ cFirst' = IF cRun = 1 THEN cOutFile' ELSE cFirst
    /\ cPc' = "done"
    /\ UNCHANGED <<cInFile, cData, cRaw, cRun, cRaised>>
    /\ UNCHANGED nonCleanVars

\* DataCleaner.process run again, on the table the first run wrote.
DataCleaner_process_again ==
    /\ cPc = "done"
    /\ cRun = 1
    /\ cRaised = "none"
    /\ cOutFile.exists
    /\ cInFile' = cOutFile
    /\ cRun' = 2
    /\ cData' = NoData
    /\ cRaw' = NoData
    /\ cPc' = "load"
    /\ UNCHANGED <<cOutFile, cFirst, cRaised>>
    /\ UNCHANGED nonCleanVars

(* The raw tables of the model: every column holds its usual value except  *)
(* one column, whose cells range over the texts a raw file can hold there. *)

Modelled_yes_no == boolean_columns \ {"CapitalOutstanding"}

RawColumns ==
    NamedColumns \cup {"VehicleIntroDate", "Make", "TotalPremium"}

RawTexts(c) ==
    IF c \in Modelled_yes_no THEN {Str(" YES "), Str("no"), Str("maybe"), Str("")}
    ELSE IF c = "CapitalOutstanding" THEN {NumStr(Scale, "float"), Str("garbage"), Str("")}
    ELSE IF c \in integer_columns
        THEN {NumStr(4 * Scale, "int"), NumStr(5 * Scale, "int"), Str("garbage"), Str("")}
    ELSE IF c = "PostalCode" THEN {NumStr(Scale, "int"), NumStr(2 * Scale, "int"), Str("")}
    ELSE IF c = "TransactionMonth" THEN {Str("2015-03-01"), Str("garbage"), Str("")}
    ELSE IF c = "VehicleIntroDate" THEN {Str("6/2002"), Str("garbage"), Str("")}
    ELSE IF c = "Make" THEN {Str(" bmw"), Str("AUDI"), Str("bmw"), Str("")}
    ELSE {NumStr(Scale, "int"), NumStr(2 * Scale, "int"), NumStr(4 * Scale, "int"), Str("")}

UsualText(c) ==
    IF c \in Modelled_yes_no THEN Str("no")
    ELSE IF c = "CapitalOutstanding" THEN NumStr(Scale, "float")
    ELSE IF c \in integer_columns THEN NumStr(4 * Scale, "int")
    ELSE IF c = "PostalCode" THEN NumStr(Scale, "int")
    ELSE IF c = "TransactionMonth" THEN Str("2015-03-01")
    ELSE IF c = "VehicleIntroDate" THEN Str("6/2002")
    ELSE IF c = "Make" THEN Str("bmw")
    ELSE NumStr(Scale, "float")

RowBound(v) == IF v = "TotalPremium" THEN MaxNumRows ELSE MaxRows

RawTable(n, v, texts) ==
    CsvFile([c \in RawColumns |-> IF c = v THEN texts ELSE [i \in 1..n |-> UsualText(c)]])

RawTables ==
    UNION {UNION {{RawTable(n, v, texts) : texts \in [1..n -> RawTexts(v)]} :
                    n \in 1..RowBound(v)} : v \in RawColumns}

\* An input file with nothing in it, and a cleaned file left by an earlier
\* run.
Unreadable == CsvFile(<<>>)
OldCleaned == CsvFile([c \in {"Make"} |-> <<Str("Bmw")>>])

CleanInit ==
    /\ cPc = "load"
    /\ cInFile \in RawTables \cup {Missing, Unreadable}
    /\ cOutFile \in IF read_csv_raises(cInFile) THEN {Missing, OldCleaned} ELSE {Missing}
    /\ cData = NoData
    /\ cRaw = NoData
    /\ cRun = 1
    /\ cFirst = Missing
    /\ cRaised = "none"

CleanNext ==
    \/ DataCleaner_load_data
    \/ DataCleaner_assess_data_quality
    \/ DataCleaner_clean_data
    \/ DataCleaner_save_cleaned_data
    \/ DataCleaner_process_again

CleanIdle ==
    /\ cPc = "idle"
    /\ cInFile = Missing
    /\ cOutFile = Missing
    /\ cData = NoData
    /\ cRaw = NoData
    /\ cRun = 1
    /\ cFirst = Missing
    /\ cRaised = "none"

-----------------------------------------------------------------------------
(* Properties of DataCleaner.                                              *)

\* clean_data has returned normally; cRaw is the frame it was given.
AfterClean == cData.present /\ cRaised = "none" /\ cPc \in {"save", "done"}

\* C1: cleaning is idempotent on cleaned input: DataCleaner.process run on
\* the table a first run wrote ends normally and writes the same table.
C1_CleaningIsIdempotent ==
    (cRun = 2 /\ cPc = "done") => (cRaised = "none" /\ cOutFile = cFirst)

\* The text clean_data looks up in {'yes': True, 'no': False}.
YesNoText(c, dtype) ==
    LET t == astype_str_cell(c, dtype)
    IN  IF t.k = "str" THEN str_lower(str_strip(t.s)) ELSE "number"

\* C2: after clean_data every cell of a yes/no column is True (the input
\* trims and lower-cases to 'yes'), False ('no') or null, never a string.
C2_YesNoCellsAreBooleanOrNull ==
    AfterClean =>
        \A c \in boolean_columns : \A i \in DOMAIN cData.cells[c] :
            LET out == cData.cells[c][i]
                txt == YesNoText(cRaw.cells[c][i], cRaw.dtype[c])
            IN  IF txt = "yes" THEN out = Bool(TRUE)
                ELSE IF txt = "no" THEN out = Bool(FALSE)
                ELSE IsNull(out)

\* The columns of the raw frame that clean_data treats as plain text.
TextColumns ==
    {c \in Columns(cRaw) \ (NamedColumns \cup {"VehicleIntroDate"}) : cRaw.dtype[c] = "object"}

\* x is a most frequent value among the cells of out whose raw cell is not null.
IsModeOfPresent(x, raw, out) ==
    LET present == {i \in DOMAIN raw : ~IsNull(raw[i])}
        Freq(y) == Cardinality({i \in present : out[i] = y})
    IN  /\ \E i \in present : out[i] = x
        /\ \A i \in present : Freq(out[i]) <= Freq(x)

\* C3: after clean_data every cell that was missing in a text column holds
\* the column's mode, not a placeholder made from the missing marker.
C3_MissingTextHoldsMode ==
    AfterClean =>
        \A c \in TextColumns : \A i \in DOMAIN cRaw.cells[c] :
            IsNull(cRaw.cells[c][i]) =>
                IsModeOfPresent(cData.cells[c][i], cRaw.cells[c], cData.cells[c])

\* The columns that are numeric in the raw frame and in the cleaned frame.
NumericColumns ==
    {c \in Columns(cRaw) :
        cRaw.dtype[c] \in {"int64", "float64"} /\ cData.dtype[c] \in NumericDtypes}

\* The two middle values of a non-empty sequence of numbers (equal when its
\* length is odd).
LowerMiddle(v) ==
    LET half == (Len(v) + 1) \div 2
        ok == {x \in Range(v) : Cardinality({i \in DOMAIN v : v[i] <= x}) >= half}
    IN  CHOOSE x \in ok : \A y \in ok : x <= y

UpperMiddle(v) ==
    LET half == (Len(v) + 1) \div 2
        ok == {x \in Range(v) : Cardinality({i \in DOMAIN v : v[i] >= x}) >= half}
    IN  CHOOSE x \in ok : \A y \in ok : x >= y

\* C4: after clean_data, in every numeric column a cell that was null holds
\* the median of the column's non-null values and every other cell is
\* unchanged, whatever the width of the column's dtype.
C4_NumericMedianFill ==
    AfterClean =>
        \A c \in NumericColumns : \A i \in DOMAIN cRaw.cells[c] :
            LET raw == cRaw.cells[c]
                out == cData.cells[c][i]
            IN  IF IsNull(raw[i])
                THEN /\ out.k = "num"
                     /\ 2 * out.n = LowerMiddle(NonNull(raw)) + UpperMiddle(NonNull(raw))
                ELSE out = raw[i]

\* [1, 2, null, 4] has become [1, 2, 2, 4].
C4_Witness ==
    /\ AfterClean
    /\ "TotalPremium" \in NumericColumns
    /\ cRaw.cells["TotalPremium"] = <<Num(Scale), Num(2 * Scale), NaN, Num(4 * Scale)>>
    /\ cData.cells["TotalPremium"] = <<Num(Scale), Num(2 * Scale), Num(2 * Scale), Num(4 * Scale)>>


\* A cell pd.to_numeric can parse.
Parsable(c) == c.k \in {"num", "numstr"}

\* C13: after clean_data the column CapitalOutstanding is numeric: every
\* parsable input value is kept as its number and every other cell is null
\* or holds the median that filled it.
C13_CapitalOutstandingIsNumeric ==
    AfterClean =>
        /\ cData.dtype["CapitalOutstanding"] \in NumericDtypes
        /\ \A i \in DOMAIN cRaw.cells["CapitalOutstanding"] :
            LET raw == cRaw.cells["CapitalOutstanding"][i]
                out == cData.cells["CapitalOutstanding"][i]
            IN  IF Parsable(raw) THEN out = Num(raw.n) ELSE out.k \in {"num", "nan"}

DateColumns == {"TransactionMonth", "VehicleIntroDate"}

\* C14: after clean_data both date columns hold parsed dates or nulls; none
\* is left holding text.
C14_DateColumnsAreParsed ==
    AfterClean =>
        \A c \in DateColumns \cap Columns(cData) :
            /\ cData.dtype[c] = "datetime64"
            /\ \A i \in DOMAIN cData.cells[c] : cData.cells[c][i].k \in {"date", "nan"}

\* C15: after clean_data every value of the integer columns Cylinders and
\* NumberOfDoors is a whole number, also where the input was missing or not
\* a number.
C15_IntegerColumnsAreWhole ==
    AfterClean =>
        \A c \in integer_columns : \A i \in DOMAIN cData.cells[c] :
            /\ cData.cells[c][i].k = "num"
            /\ cData.cells[c][i].n % Scale = 0

\* The columns of a file that hold a value in some row.
FilledColumns(file) ==
    {c \in DOMAIN file.cells : \E i \in DOMAIN file.cells[c] : ~csv_is_na(file.cells[c][i])}

\* C16: DataCleaner.process on a raw table ends normally and writes the
\* cleaned file, whose columns are the input's columns that are not
\* entirely null, also when a column clean_data names is entirely empty.
C16_EveryRawTableIsCleaned ==
    (cRun = 1 /\ cPc = "done" /\ ~read_csv_raises(cInFile)) =>
        /\ cRaised = "none"
        /\ cOutFile.exists
        /\ DOMAIN cOutFile.cells = FilledColumns(cInFile)

\* load_data has returned without a table.
LoadFailedInProcess == cPc \in {"assess", "clean", "save"} /\ ~cData.present

\* C26: after a failed load_data (input missing or unreadable) the rest of
\* process does nothing: self.data stays null, no exception is raised and
\* cleaned_ml.csv is neither created nor modified.
C26_FailedLoadLeavesNoOutput ==
    [][LoadFailedInProcess =>
          /\ cData' = NoData
          /\ cRaised' = "none"
          /\ cOutFile' = cOutFile]_vars

\* process has ended after a failed load of an unreadable file, with the
\* cleaned file of an earlier run still in place.
C26_Witness ==
    /\ cPc = "done"
    /\ cRun = 1
    /\ cInFile = Unreadable
    /\ ~cData.present
    /\ cOutFile = OldCleaned

-----------------------------------------------------------------------------
(* OutlierDetector (task-1/outlier_detection_box_plots.py).                *)

\* Series.quantile(num/4), linear interpolation between the two nearest
\* order statistics of the non-null values; NaN when there is none.
quantile(cells, num) ==
    LET v == SortInts(NonNull(cells))
        m == Len(v)
        lo == ((m - 1) * num) \div 4
        r == ((m - 1) * num) % 4
    IN  IF m = 0 THEN NaN
        ELSE IF r = 0 THEN Num(v[lo + 1])
        ELSE Num(v[lo + 1] + (r * (v[lo + 2] - v[lo + 1])) \div 4)

\* Float arithmetic and comparison: NaN propagates and compares false.
f_sub(a, b) == IF IsNull(a) \/ IsNull(b) THEN NaN ELSE Num(a.n - b.n)
f_add(a, b) == IF IsNull(a) \/ IsNull(b) THEN NaN ELSE Num(a.n + b.n)
f_lt(a, b) == ~IsNull(a) /\ ~IsNull(b) /\ a.n < b.n
f_gt(a, b) == f_lt(b, a)
\* 1.5 * a, exact because a quartile difference of whole numbers is even.
f_times_1_5(a) == IF IsNull(a) THEN NaN ELSE Num((3 * a.n) \div 2)

\* A fence test that also flags the values on the fence.
is_outlier_inclusive(x, lower_bound, upper_bound) ==
    \/ (~IsNull(x) /\ ~IsNull(lower_bound) /\ x.n <= lower_bound.n)
    \/ (~IsNull(x) /\ ~IsNull(upper_bound) /\ x.n >= upper_bound.n)

\* (data[col] < lower_bound) | (data[col] > upper_bound)
is_outlier(x, lower_bound, upper_bound) ==
    f_lt(x, lower_bound) \/ f_gt(x, upper_bound)

\* The statistics detect_outliers prints for one column.
outlier_statistics(cells) ==
    LET Q1 == quantile(cells, 1)
        Q3 == quantile(cells, 3)
        IQR == f_sub(Q3, Q1)
        lower_bound == f_sub(Q1, f_times_1_5(IQR))
        upper_bound == f_add(Q3, f_times_1_5(IQR))
        outliers == {i \in DOMAIN cells : is_outlier(cells[i], lower_bound, upper_bound)}
    IN  [Q1 |-> Q1, Q3 |-> Q3, IQR |-> IQR,
         lower_bound |-> lower_bound, upper_bound |-> upper_bound,
         outliers |-> outliers, count |-> Cardinality(outliers)]

\* data.select_dtypes(include=['float64', 'int64']).columns
numerical_columns(df) == {c \in Columns(df) : df.dtype[c] \in {"float64", "int64"}}

\* OutlierDetector.__init__ with the cleaned file in place.
OutlierDetector_init ==
    /\ oScript = "task-1/outlier_detection_box_plots.py"
    /\ oPc = "init"
    /\ oFile.exists
    /\ oData' = read_csv(oFile)
    /\ oPc' = "detect"
    /\ UNCHANGED <<oFile, oReport, oScript, oPlots>>
    /\ UNCHANGED nonOutlierVars

\* The loop over numerical_columns: a box plot is saved and the statistics
\* are printed for each column.
OutlierDetector_detect_outliers ==
    /\ oScript = "task-1/outlier_detection_box_plots.py"
    /\ oPc = "detect"
    /\ oPlots' = [c \in numerical_columns(oData) |-> 1]
    /\ oReport' = [c \in numerical_columns(oData) |-> outlier_statistics(oData.cells[c])]
    /\ oPc' = "done"
    /\ UNCHANGED <<oFile, oData, oScript>>
    /\ UNCHANGED nonOutlierVars

\* outlier_detection_box_plots.py in src/: pd.read_csv at the top of the
\* module.
outlier_detection_box_plots_read_csv ==
    /\ oScript = "outlier_detection_box_plots.py"
    /\ oPc = "init"
    /\ oFile.exists
    /\ oData' = read_csv(oFile)
    /\ oPc' = "detect"
    /\ UNCHANGED <<oFile, oReport, oScript, oPlots>>
    /\ UNCHANGED nonOutlierVars

\* Its loop over numerical_columns: a box plot is saved for each column and
\* nothing else is done.
outlier_detection_box_plots_loop ==
    /\ oScript = "outlier_detection_box_plots.py"
    /\ oPc = "detect"
    /\ oPlots' = [c \in numerical_columns(oData) |-> 1]
    /\ oPc' = "done"
    /\ UNCHANGED <<oFile, oData, oReport, oScript>>
    /\ UNCHANGED nonOutlierVars

\* Largest number of rows of a cleaned table given to OutlierDetector.
MaxOutlierRows == 4

OutlierTexts ==
    {NumStr(Scale, "int"), NumStr(2 * Scale, "int"), NumStr(10 * Scale, "int"), Str("")}

\* Cleaned tables with one text column and two numeric columns, of which
\* TotalPremium varies.
OutlierTables ==
    UNION {{CsvFile([c \in {"Make", "TotalPremium", "TotalClaims"} |->
                        IF c = "TotalPremium" THEN texts
                        ELSE IF c = "Make" THEN [i \in 1..n |-> Str("Bmw")]
                        ELSE [i \in 1..n |-> NumStr(Scale * i, "float")]]) :
                texts \in [1..n -> OutlierTexts]} : n \in 1..MaxOutlierRows}

OutlierInit ==
    /\ oPc = "init"
    /\ oFile \in OutlierTables
    /\ oData = NoData
    /\ oReport = <<>>
    /\ oScript \in {"task-1/outlier_detection_box_plots.py", "outlier_detection_box_plots.py"}
    /\ oPlots = <<>>

OutlierIdle ==
    /\ oPc = "idle"
    /\ oFile = Missing
    /\ oData = NoData
    /\ oReport = <<>>
    /\ oScript = "none"
    /\ oPlots = <<>>

OutlierNext ==
    \/ OutlierDetector_init
    \/ OutlierDetector_detect_outliers
    \/ outlier_detection_box_plots_read_csv
    \/ outlier_detection_box_plots_loop

\* C5: the fences detect_outliers reports are Q1 - 1.5*(Q3-Q1) and
\* Q3 + 1.5*(Q3-Q1) of the quartiles it reports, and every row it counts as
\* an outlier lies strictly below the lower or strictly above the upper one.
C5_TukeyFences ==
    oPc = "done" =>
        \A c \in DOMAIN oReport :
            LET r == oReport[c]
            IN  /\ ~IsNull(r.Q1) =>
                    /\ 2 * r.lower_bound.n = 2 * r.Q1.n - 3 * (r.Q3.n - r.Q1.n)
                    /\ 2 * r.upper_bound.n = 2 * r.Q3.n + 3 * (r.Q3.n - r.Q1.n)
                /\ \A i \in r.outliers :
                    /\ oData.cells[c][i].k = "num"
                    /\ \/ oData.cells[c][i].n < r.lower_bound.n
                       \/ oData.cells[c][i].n > r.upper_bound.n
                /\ r.count = Cardinality(r.outliers)

\* [1, 1, 1, 10]: the fences are 1 - 3.375 and 3.25 + 3.375, the 10 is
\* flagged and the values inside are not.
C5_Witness ==
    /\ oPc = "done"
    /\ oData.cells["TotalPremium"] = <<Num(Scale), Num(Scale), Num(Scale), Num(10 * Scale)>>
    /\ oReport["TotalPremium"].upper_bound = Num(53)
    /\ oReport["TotalPremium"].lower_bound = Num(-19)
    /\ oReport["TotalPremium"].outliers = {4}

\* C21: in both outlier scripts every numeric column gets exactly one box
\* plot and a report of its two bounds and its outlier count, and the count
\* is the number of rows strictly below the lower or strictly above the
\* upper bound.
C21_EveryNumericColumnIsPlottedAndReported ==
    oPc = "done" =>
        \A c \in numerical_columns(oData) :
            /\ c \in DOMAIN oPlots
            /\ oPlots[c] = 1
            /\ c \in DOMAIN oReport
            /\ oReport[c].count =
                    Cardinality({i \in DOMAIN oData.cells[c] :
                        /\ oData.cells[c][i].k = "num"
                        /\ ~IsNull(oReport[c].lower_bound)
                        /\ \/ oData.cells[c][i].n < oReport[c].lower_bound.n
                           \/ oData.cells[c][i].n > oReport[c].upper_bound.n})

-----------------------------------------------------------------------------
(* The hypothesis-testing scripts of task-3.  scipy's tests are library    *)
(* calls: the outcome of a test is one of TestOutcomes, a t-test of a      *)
(* sample of fewer than two values is NaN, and a t-test computed before    *)
(* gives the same outcome again (tMemo).  p-values are in thousandths.     *)

\* The significance level 0.05, in thousandths.
Alpha == 50

NaNOutcome == [stat |-> NaN, p |-> NaN]

TestOutcomes ==
    {NaNOutcome,
     [stat |-> Num(3000), p |-> Num(Alpha - 1)],
     [stat |-> Num(2000), p |-> Num(Alpha)],
     [stat |-> Num(0), p |-> Num(1000)]}

\* Largest number of rows of a cleaned table given to a task-3 script, and
\* of runs of one script.
MaxTestRows == 4
MaxRuns == 2

Indices(n) == [i \in 1..n |-> i]

\* A selection that also takes the rows with no value in col.
RowsWhereOrNull(df, col, value) ==
    SelectSeq(Indices(Len(df.cells[col])),
              LAMBDA i : df.cells[col][i] = value \/ IsNull(df.cells[col][i]))

\* The rows (index labels, in order) of data[data[col] == value].
RowsWhere(df, col, value) ==
    SelectSeq(Indices(Len(df.cells[col])), LAMBDA i : df.cells[col][i] = value)

\* group_a and group_b as a script holds them after its two selections, and
\* len(group_a), len(group_b) once the "Group A Size" and "Group B Size"
\* lines are in a written file.
Segmentation(group_a, group_b, reported) ==
    [group_a |-> group_a, group_b |-> group_b,
     size_a |-> IF reported THEN Len(group_a) ELSE 0,
     size_b |-> IF reported THEN Len(group_b) ELSE 0,
     reported |-> reported]
NoSeg == [group_a |-> <<>>, group_b |-> <<>>, size_a |-> 0, size_b |-> 0, reported |-> FALSE]

\* The selections of a script made with feature_column, control_value and
\* test_value; sizes counts as reported when the run wrote its file.
segment(df, params, sizes) ==
    Segmentation(RowsWhere(df, params.feature, Str(params.control)),
                 RowsWhere(df, params.feature, Str(params.test)), sizes)

\* group[col].dropna() as numbers.
Sample(df, col, rows) == NonNull([j \in DOMAIN rows |-> df.cells[col][rows[j]]])

\* The outcomes scipy.stats.ttest_ind(a, b, equal_var=False) can have now.
ttest_ind(a, b) ==
    LET seen == {m.r : m \in {x \in tMemo : x.a = a /\ x.b = b}}
    IN  IF seen # {} THEN seen
        ELSE IF Len(a) < 2 \/ Len(b) < 2 THEN {NaNOutcome}
        ELSE TestOutcomes

\* The index labels pd.crosstab(a, b) counts: present in both series with
\* both values non-null.  chi2_contingency raises ValueError on none.
crosstab_rows(df, colA, rowsA, colB, rowsB) ==
    {i \in Range(rowsA) \cap Range(rowsB) :
        ~IsNull(df.cells[colA][i]) /\ ~IsNull(df.cells[colB][i])}

\* pd.api.types.is_numeric_dtype
is_numeric_dtype(dtype) == dtype \in NumericDtypes \cup {"bool"}

Entry(col, test, r, conclusions) ==
    [col |-> col, test |-> test, stat |-> r.stat, p |-> r.p, conclusions |-> conclusions]

ResultFile(site, entries, summary) == [site |-> site, entries |-> entries, summary |-> summary]
NoFile == ResultFile("none", <<>>, "")

\* The first outcome of every t-test site stays on record.
Remember(first, site, entries) ==
    first \cup
        {[site |-> site, e |-> entries[i]] :
            i \in {j \in DOMAIN entries :
                    /\ entries[j].test = "t"
                    /\ ~\E f \in first : f.site = site /\ f.e.col = entries[j].col}}

\* A result file is written.
Write(site, entries, summary) ==
    /\ tLast' = ResultFile(site, entries, summary)
    /\ tWritten' = Append(tWritten, site)
    /\ tFirstT' = Remember(tFirstT, site, entries)

\* The script ends with an uncaught exception (SystemExit for exit()).
Raise(exc) ==
    /\ tRaised' = exc
    /\ tPc' = "done"

(* ABHypothesisTesting (task-3/ab_hypothesis_testing.py).                  *)

\* A rule that also rejects at p = 0.05.
conclusion_at_or_below(p) ==
    IF ~IsNull(p) /\ p.n <= Alpha THEN {"reject"} ELSE {"fail to reject"}

ab_conclusion(p) ==
    IF f_lt(p, Num(Alpha)) THEN {"reject"} ELSE {"fail to reject"}

ABHypothesisTesting_load_data ==
    /\ tScript = "ab_hypothesis_testing"
    /\ tPc = "load"
    /\ IF tFile.exists
         THEN /\ tData' = read_csv(tFile)
              /\ tPc' = "provinces"
              /\ UNCHANGED tRaised
         ELSE /\ Raise("SystemExit")
              /\ UNCHANGED tData
    /\ UNCHANGED <<tSeg, tScript, tParams, tFile, tLast, tWritten, tMemo, tFirstT, tRun>>
    /\ UNCHANGED nonTestVars

\* One of the three ANOVA tests: the column check, f_oneway over the groups
\* of groupCol (TypeError on fewer than two groups) and save_results.
ab_anova(site, groupCol, valueCol, df, next) ==
    /\ IF ~({groupCol, "TotalPremium", "TotalClaims"} \subseteq Columns(tData))
         THEN /\ tPc' = next
              /\ UNCHANGED <<tData, tLast, tWritten, tFirstT, tRaised>>
         ELSE IF Cardinality(Range(df.cells[groupCol])) < 2
         THEN /\ Raise("TypeError")
              /\ tData' = df
              /\ UNCHANGED <<tLast, tWritten, tFirstT>>
         ELSE /\ \E r \in TestOutcomes :
                    Write(site, <<Entry(valueCol, "anova", r, ab_conclusion(r.p))>>, "")
              /\ tData' = df
              /\ tPc' = next
              /\ UNCHANGED tRaised
    /\ UNCHANGED <<tSeg, tScript, tParams, tFile, tMemo, tRun>>

\* data['ProfitMargin'] = data['TotalPremium'] - data['TotalClaims'],
\* written over TotalPremium instead.
with_profit_margin_over_premium(df) ==
    LET margin == [i \in DOMAIN df.cells["TotalPremium"] |->
                     f_sub(df.cells["TotalPremium"][i], df.cells["TotalClaims"][i])]
    IN  Frame([df.dtype EXCEPT !["TotalPremium"] = "float64"],
              [df.cells EXCEPT !["TotalPremium"] = margin])

\* data['ProfitMargin'] = data['TotalPremium'] - data['TotalClaims']
with_profit_margin(df) ==
    LET margin == [i \in DOMAIN df.cells["TotalPremium"] |->
                     f_sub(df.cells["TotalPremium"][i], df.cells["TotalClaims"][i])]
    IN  Frame([c \in Columns(df) \cup {"ProfitMargin"} |->
                 IF c = "ProfitMargin" THEN "float64" ELSE df.dtype[c]],
              [c \in Columns(df) \cup {"ProfitMargin"} |->
                 IF c = "ProfitMargin" THEN margin ELSE df.cells[c]])

ABHypothesisTesting_test_risk_differences_across_provinces ==
    /\ tScript = "ab_hypothesis_testing"
    /\ tPc = "provinces"
    /\ ab_anova("risk_differences_across_provinces", "Province", "TotalPremium",
                tData, "zip_risk")
    /\ UNCHANGED nonTestVars

ABHypothesisTesting_test_risk_differences_between_zip_codes ==
    /\ tScript = "ab_hypothesis_testing"
    /\ tPc = "zip_risk"
    /\ ab_anova("risk_differences_between_zip_codes", "PostalCode", "TotalPremium",
                tData, "zip_margin")
    /\ UNCHANGED nonTestVars

ABHypothesisTesting_test_margin_differences_between_zip_codes ==
    /\ tScript = "ab_hypothesis_testing"
    /\ tPc = "zip_margin"
    /\ ab_anova("margin_differences_between_zip_codes", "PostalCode", "ProfitMargin",
                IF {"PostalCode", "TotalPremium", "TotalClaims"} \subseteq Columns(tData)
                    THEN with_profit_margin(tData) ELSE tData,
                "genders")
    /\ UNCHANGED nonTestVars

ABHypothesisTesting_test_risk_differences_between_genders ==
    /\ tScript = "ab_hypothesis_testing"
    /\ tPc = "genders"
    /\ IF ~({"Gender", "TotalPremium", "TotalClaims"} \subseteq Columns(tData))
         THEN UNCHANGED <<tLast, tWritten, tFirstT, tMemo>>
         ELSE LET male_risk == Sample(tData, "TotalPremium", RowsWhere(tData, "Gender", Str("Male")))
                  female_risk == Sample(tData, "TotalPremium", RowsWhere(tData, "Gender", Str("Female")))
              IN  \E r \in ttest_ind(male_risk, female_risk) :
                    /\ tMemo' = tMemo \cup {[a |-> male_risk, b |-> female_risk, r |-> r]}
                    /\ Write("risk_differences_between_genders",
                             <<Entry("TotalPremium", "t", r, ab_conclusion(r.p))>>, "")
    /\ tPc' = "done"
    /\ UNCHANGED <<tSeg, tScript, tParams, tFile, tData, tRun, tRaised>>
    /\ UNCHANGED nonTestVars

\* run_tests called once more on the same object.
ABHypothesisTesting_run_tests_again ==
    /\ tScript = "ab_hypothesis_testing"
    /\ tPc = "done"
    /\ tRaised = "none"
    /\ tRun < MaxRuns
    /\ tRun' = tRun + 1
    /\ tPc' = "provinces"
    /\ UNCHANGED <<tSeg, tScript, tParams, tFile, tData, tLast, tWritten, tMemo, tFirstT, tRaised>>
    /\ UNCHANGED nonTestVars

\* The script is started again, as a new process, on the same file.
RunScriptAgain ==
    /\ tPc = "done"
    /\ tRun < MaxRuns
    /\ tRun' = tRun + 1
    /\ tPc' = "load"
    /\ tData' = NoData
    /\ tWritten' = <<>>
    /\ tRaised' = "none"
    /\ tSeg' = NoSeg
    /\ UNCHANGED <<tScript, tParams, tFile, tLast, tMemo, tFirstT>>
    /\ UNCHANGED nonTestVars

(* The scripts whose constructor calls pd.read_csv without a handler.      *)

read_csv_in_init(script) ==
    /\ tScript = script
    /\ tPc = "load"
    /\ IF tFile.exists
         THEN /\ tData' = read_csv(tFile)
              /\ tPc' = "test"
              /\ UNCHANGED tRaised
         ELSE /\ Raise("FileNotFoundError")
              /\ UNCHANGED tData
    /\ UNCHANGED <<tSeg, tScript, tParams, tFile, tLast, tWritten, tMemo, tFirstT, tRun>>
    /\ UNCHANGED nonTestVars

(* StatisticalTesting (task-3/statistical_testing.py).                     *)

perform_t_test_conclusion(p) ==
    IF f_lt(p, Num(Alpha)) THEN {"reject"} ELSE {"fail to reject"}

perform_chi_squared_test_conclusion(p) ==
    IF f_lt(p, Num(Alpha)) THEN {"reject"} ELSE {"fail to reject"}

StatisticalTesting_init == read_csv_in_init("statistical_testing")

StatisticalTesting_conduct_statistical_tests ==
    /\ tScript = "statistical_testing"
    /\ tPc = "test"
    /\ IF ~({tParams.feature, tParams.kpi} \subseteq Columns(tData))
         THEN /\ Raise("ValueError")
              /\ UNCHANGED <<tLast, tWritten, tFirstT, tMemo>>
         ELSE LET group_a == RowsWhere(tData, tParams.feature, Str(tParams.control))
                  group_b == RowsWhere(tData, tParams.feature, Str(tParams.test))
                  a == Sample(tData, tParams.kpi, group_a)
                  b == Sample(tData, tParams.kpi, group_b)
              IN  IF is_numeric_dtype(tData.dtype[tParams.kpi])
                  THEN \E r \in ttest_ind(a, b) :
                        /\ tMemo' = tMemo \cup {[a |-> a, b |-> b, r |-> r]}
                        /\ Write("statistical_testing",
                                 <<Entry(tParams.kpi, "t", r, perform_t_test_conclusion(r.p))>>, "")
                        /\ tPc' = "done"
                        /\ UNCHANGED tRaised
                  ELSE IF crosstab_rows(tData, tParams.kpi, group_a, tParams.kpi, group_b) = {}
                  THEN /\ Raise("ValueError")
                       /\ UNCHANGED <<tLast, tWritten, tFirstT, tMemo>>
                  ELSE \E r \in TestOutcomes :
                        /\ Write("statistical_testing",
                                 <<Entry(tParams.kpi, "chi2", r,
                                         perform_chi_squared_test_conclusion(r.p))>>, "")
                        /\ tPc' = "done"
                        /\ UNCHANGED <<tRaised, tMemo>>
    /\ tSeg' = IF {tParams.feature, tParams.kpi} \subseteq Columns(tData)
                 THEN segment(tData, tParams, tRaised' = "none")
                 ELSE tSeg
    /\ UNCHANGED <<tScript, tParams, tFile, tData, tRun>>
    /\ UNCHANGED nonTestVars

(* HypothesisTesting (task-3/hypothesis_testing.py).                       *)

perform_anova_conclusion(p) ==
    IF f_lt(p, Num(Alpha)) THEN {"reject"} ELSE {"fail to reject"}

perform_ttest_conclusion(p) ==
    IF f_lt(p, Num(Alpha)) THEN {"reject"} ELSE {"fail to reject"}

required_columns == {"Province", "PostalCode", "Gender", "Risk", "ProfitMargin"}

\* data.dropna(subset=required_columns): the frame of the rows left.
dropna_subset(df, subset) ==
    LET n == Len(df.cells[CHOOSE c \in Columns(df) : TRUE])
        keep == SelectSeq(Indices(n), LAMBDA i : \A c \in subset : ~IsNull(df.cells[c][i]))
    IN  Frame(df.dtype, [c \in Columns(df) |-> [j \in DOMAIN keep |-> df.cells[c][keep[j]]]])

HypothesisTesting_init == read_csv_in_init("hypothesis_testing")

\* perform_hypothesis_testing up to its first test: the column check and
\* the dropna.
HypothesisTesting_perform_hypothesis_testing ==
    /\ tScript = "hypothesis_testing"
    /\ tPc = "test"
    /\ IF ~(required_columns \subseteq Columns(tData))
         THEN /\ Raise("ValueError")
              /\ UNCHANGED tData
         ELSE /\ tData' = dropna_subset(tData, required_columns)
              /\ tPc' = "anova1"
              /\ UNCHANGED tRaised
    /\ UNCHANGED <<tSeg, tScript, tParams, tFile, tLast, tWritten, tMemo, tFirstT, tRun>>
    /\ UNCHANGED nonTestVars

\* perform_anova over the groups of data.groupby(groupCol).
HypothesisTesting_perform_anova ==
    /\ tScript = "hypothesis_testing"
    /\ tPc \in {"anova1", "anova2", "anova3"}
    /\ LET groupCol == IF tPc = "anova1" THEN "Province" ELSE "PostalCode"
           valueCol == IF tPc = "anova3" THEN "ProfitMargin" ELSE "Risk"
           label == CASE tPc = "anova1" -> "anova_Risk across Provinces"
                      [] tPc = "anova2" -> "anova_Risk across Postal Codes"
                      [] OTHER -> "anova_Profit Margins across Postal Codes"
       IN  IF Cardinality(Range(tData.cells[groupCol])) < 2
           THEN /\ Raise("TypeError")
                /\ UNCHANGED <<tLast, tWritten, tFirstT>>
           ELSE /\ \E r \in TestOutcomes :
                    Write(label, <<Entry(valueCol, "anova", r, perform_anova_conclusion(r.p))>>, "")
                /\ tPc' = CASE tPc = "anova1" -> "anova2"
                            [] tPc = "anova2" -> "anova3"
                            [] OTHER -> "ttest"
                /\ UNCHANGED tRaised
    /\ UNCHANGED <<tSeg, tScript, tParams, tFile, tData, tMemo, tRun>>
    /\ UNCHANGED nonTestVars

HypothesisTesting_perform_ttest ==
    /\ tScript = "hypothesis_testing"
    /\ tPc = "ttest"
    /\ LET female_risk == Sample(tData, "Risk", RowsWhere(tData, "Gender", Str("Female")))
           male_risk == Sample(tData, "Risk", RowsWhere(tData, "Gender", Str("Male")))
       IN  \E r \in ttest_ind(female_risk, male_risk) :
            /\ tMemo' = tMemo \cup {[a |-> female_risk, b |-> male_risk, r |-> r]}
            /\ Write("ttest_Risk between Women and Men",
                     <<Entry("Risk", "t", r, perform_ttest_conclusion(r.p))>>, "")
    /\ tPc' = "done"
    /\ UNCHANGED <<tSeg, tScript, tParams, tFile, tData, tRun, tRaised>>
    /\ UNCHANGED nonTestVars

(* StatisticalAnalysisReport (task-3/statistical_analysis_report.py).      *)

significance_level == Alpha

perform_statistical_test_conclusion(p) ==
    IF f_lt(p, Num(significance_level)) THEN {"reject"} ELSE {"fail to reject"}

StatisticalAnalysisReport_load_data ==
    /\ tScript = "statistical_analysis_report"
    /\ tPc = "load"
    /\ IF tFile.exists
         THEN /\ tData' = read_csv(tFile)
              /\ tPc' = "test"
              /\ UNCHANGED tRaised
         ELSE /\ Raise("SystemExit")
              /\ UNCHANGED tData
    /\ UNCHANGED <<tSeg, tScript, tParams, tFile, tLast, tWritten, tMemo, tFirstT, tRun>>
    /\ UNCHANGED nonTestVars

\* The same search made without regard to case, which also finds the
\* "Fail to reject the null hypothesis" line.
interpretation_ignoring_case(entries) ==
    IF entries # <<>> THEN "significant impact" ELSE "no significant impact"

\* "Reject the null hypothesis" in statistical_results
interpretation(entries) ==
    IF \E i \in DOMAIN entries : "reject" \in entries[i].conclusions
    THEN "significant impact" ELSE "no significant impact"

\* analyze_and_report: perform_statistical_test dispatches on the dtype of
\* the feature column, then the report is saved.
StatisticalAnalysisReport_analyze_and_report ==
    /\ tScript = "statistical_analysis_report"
    /\ tPc = "test"
    /\ IF ~({tParams.feature, tParams.kpi} \subseteq Columns(tData))
         THEN /\ Raise("KeyError")
              /\ UNCHANGED <<tLast, tWritten, tFirstT, tMemo>>
         ELSE LET rows == Indices(Len(tData.cells[tParams.feature]))
                  a == Sample(tData, tParams.feature, rows)
                  b == Sample(tData, tParams.kpi, rows)
              IN  IF tData.dtype[tParams.feature] = "object"
                  THEN IF crosstab_rows(tData, tParams.feature, rows, tParams.kpi, rows) = {}
                       THEN /\ Raise("ValueError")
                            /\ UNCHANGED <<tLast, tWritten, tFirstT, tMemo>>
                       ELSE \E r \in TestOutcomes :
                            LET entries == <<Entry(tParams.feature, "chi2", r,
                                                   perform_statistical_test_conclusion(r.p))>>
                            IN  /\ Write("statistical_analysis_report", entries,
                                         interpretation(entries))
                                /\ tPc' = "done"
                                /\ UNCHANGED <<tRaised, tMemo>>
                  ELSE IF tData.dtype[tParams.feature] \in {"int64", "float64"}
                  THEN \E r \in ttest_ind(a, b) :
                        LET entries == <<Entry(tParams.feature, "t", r,
                                               perform_statistical_test_conclusion(r.p))>>
                        IN  /\ tMemo' = tMemo \cup {[a |-> a, b |-> b, r |-> r]}
                            /\ Write("statistical_analysis_report", entries,
                                     interpretation(entries))
                            /\ tPc' = "done"
                            /\ UNCHANGED tRaised
                  ELSE /\ Write("statistical_analysis_report", <<>>, interpretation(<<>>))
                       /\ tPc' = "done"
                       /\ UNCHANGED <<tRaised, tMemo>>
    /\ UNCHANGED <<tSeg, tScript, tParams, tFile, tData, tRun>>
    /\ UNCHANGED nonTestVars

(* AnalyzeAndReport (task-3/analyze_and_report.py) and DataSegmentation    *)
(* (task-3/data_segmentation.py) run the same loop over columns_to_check.  *)

columns_to_check ==
    <<"Age", "Gender", "Citizenship", "TotalPremium", "SumInsured", "VehicleType">>

analyze_statistical_outcomes_conclusion(p) ==
    IF f_lt(p, Num(Alpha)) THEN {"reject"} ELSE {"fail to reject"}

\* A rule that also denies equivalence at p = 0.05.
equivalence_denied_at_or_below(p) ==
    IF ~IsNull(p) /\ p.n <= Alpha THEN {"not equivalent"} ELSE {"equivalent"}

test_statistical_equivalence_conclusion(p) ==
    IF f_lt(p, Num(Alpha)) THEN {"not equivalent"} ELSE {"equivalent"}

\* The loop over columns_to_check: a column absent from the table is noted
\* and skipped, a numeric column is t-tested, any other column is
\* cross-tabulated between the two groups and chi-squared tested.  The file
\* is written after the loop, so an exception in the loop leaves no file.
check_columns(site, conclusion(_), rejected, kept) ==
    LET group_a == RowsWhere(tData, tParams.feature, Str(tParams.control))
        group_b == RowsWhere(tData, tParams.feature, Str(tParams.test))
        found == SelectSeq(columns_to_check, LAMBDA c : c \in Columns(tData))
        numeric(i) == is_numeric_dtype(tData.dtype[found[i]])
        fails(i) == ~numeric(i) /\ crosstab_rows(tData, found[i], group_a, found[i], group_b) = {}
        stop == IF \E i \in DOMAIN found : fails(i)
                THEN CHOOSE i \in DOMAIN found : fails(i) /\ \A j \in 1..(i - 1) : ~fails(j)
                ELSE Len(found) + 1
        a(i) == Sample(tData, found[i], group_a)
        b(i) == Sample(tData, found[i], group_b)
    IN  \E rs \in [1..(stop - 1) -> TestOutcomes] :
          /\ \A i \in 1..(stop - 1) : numeric(i) => rs[i] \in ttest_ind(a(i), b(i))
          /\ tMemo' = tMemo \cup {[a |-> a(i), b |-> b(i), r |-> rs[i]] :
                                    i \in {j \in 1..(stop - 1) : numeric(j)}}
          /\ IF stop <= Len(found)
               THEN /\ Raise("ValueError")
                    /\ UNCHANGED <<tLast, tWritten, tFirstT>>
               ELSE LET entries == [i \in 1..Len(found) |->
                                      Entry(found[i], IF numeric(i) THEN "t" ELSE "chi2",
                                            rs[i], conclusion(rs[i].p))]
                    IN  /\ Write(site, entries,
                                 IF \E i \in DOMAIN entries : rejected \in entries[i].conclusions
                                 THEN rejected ELSE kept)
                        /\ tPc' = "done"
                        /\ UNCHANGED tRaised

AnalyzeAndReport_init == read_csv_in_init("analyze_and_report")

AnalyzeAndReport_analyze_and_save_report ==
    /\ tScript = "analyze_and_report"
    /\ tPc = "test"
    /\ IF tParams.feature \notin Columns(tData)
         THEN /\ Raise("ValueError")
              /\ UNCHANGED <<tLast, tWritten, tFirstT, tMemo>>
         ELSE check_columns("analysis_report", analyze_statistical_outcomes_conclusion,
                            "reject", "fail to reject")
    /\ tSeg' = IF tParams.feature \in Columns(tData)
                 THEN segment(tData, tParams, FALSE)
                 ELSE tSeg
    /\ UNCHANGED <<tScript, tParams, tFile, tData, tRun>>
    /\ UNCHANGED nonTestVars

DataSegmentation_init == read_csv_in_init("data_segmentation")

DataSegmentation_segment_data ==
    /\ tScript = "data_segmentation"
    /\ tPc = "test"
    /\ IF tParams.feature \notin Columns(tData)
         THEN /\ Raise("ValueError")
              /\ UNCHANGED <<tLast, tWritten, tFirstT, tMemo>>
         ELSE check_columns("segmentation", test_statistical_equivalence_conclusion,
                            "not equivalent", "equivalent")
    /\ tSeg' = IF tParams.feature \in Columns(tData)
                 THEN segment(tData, tParams, tRaised' = "none")
                 ELSE tSeg
    /\ UNCHANGED <<tScript, tParams, tFile, tData, tRun>>
    /\ UNCHANGED nonTestVars

(* SelectMetrics (task-3/select_metrics.py).                               *)

\* The KPI columns of the __main__ block.
kpi_columns == <<"ProfitMargin", "CustomerSatisfaction", "Revenue", "ConversionRate">>

SelectMetrics_init == read_csv_in_init("select_metrics")

\* select_and_analyze_kpis: select_kpi writes one file per KPI column and
\* raises ValueError at the first column the table lacks, which ends the
\* loop.
SelectMetrics_select_and_analyze_kpis ==
    /\ tScript = "select_metrics"
    /\ tPc = "test"
    /\ LET absent == {i \in DOMAIN kpi_columns : kpi_columns[i] \notin Columns(tData)}
           stop == IF absent = {} THEN Len(kpi_columns) + 1
                   ELSE CHOOSE i \in absent : \A j \in absent : i <= j
       IN  /\ tWritten' = tWritten \o [i \in 1..(stop - 1) |-> kpi_columns[i]]
           /\ tLast' = IF stop = 1 THEN tLast
                       ELSE ResultFile(kpi_columns[stop - 1], <<>>, "details")
           /\ IF stop <= Len(kpi_columns)
                THEN Raise("ValueError")
                ELSE /\ tPc' = "done"
                     /\ UNCHANGED tRaised
    /\ UNCHANGED <<tSeg, tScript, tParams, tFile, tData, tMemo, tFirstT, tRun>>
    /\ UNCHANGED nonTestVars

(* The cleaned tables the task-3 scripts are run on.                       *)

TestColumns ==
    {"Province", "PostalCode", "Gender", "CoverCategory", "NewVehicle",
     "TotalPremium", "TotalClaims", "Risk", "ProfitMargin"}

Whole(n) == NumStr(n * Scale, "int")

\* Three kinds of policy row; the third lacks its cover category, its
\* premium and its risk.
TestRows ==
    {[Province |-> Str("Gauteng"), PostalCode |-> Whole(1), Gender |-> Str("Male"),
      CoverCategory |-> Str("Basic"), NewVehicle |-> Str("True"),
      TotalPremium |-> Whole(1), TotalClaims |-> Whole(0),
      Risk |-> Whole(1), ProfitMargin |-> Whole(1)],
     [Province |-> Str("Limpopo"), PostalCode |-> Whole(2), Gender |-> Str("Female"),
      CoverCategory |-> Str("Premium"), NewVehicle |-> Str("False"),
      TotalPremium |-> Whole(2), TotalClaims |-> Whole(1),
      Risk |-> Whole(2), ProfitMargin |-> Whole(1)],
     [Province |-> Str("Limpopo"), PostalCode |-> Whole(1), Gender |-> Str("Male"),
      CoverCategory |-> Str(""), NewVehicle |-> Str("True"),
      TotalPremium |-> Str(""), TotalClaims |-> Whole(1),
      Risk |-> Str(""), ProfitMargin |-> Whole(0)]}

\* The column sets a table may lack.
TestDropped == {{}, {"Gender"}, {"Risk", "ProfitMargin"}, {"Gender", "TotalPremium"}}

TestTables ==
    UNION {{CsvFile([c \in TestColumns \ d |-> [i \in 1..n |-> rows[i][c]]]) :
                rows \in [1..n -> TestRows], d \in TestDropped} : n \in 1..MaxTestRows}

Params(feature, kpi, control, test) ==
    [feature |-> feature, kpi |-> kpi, control |-> control, test |-> test]

\* The scripts with the arguments of their __main__ blocks, and the two
\* parameterised classes with one more argument each.
TestRuns ==
    {<<"ab_hypothesis_testing", Params("", "", "", "")>>,
     <<"hypothesis_testing", Params("", "", "", "")>>,
     <<"statistical_testing", Params("CoverCategory", "TotalPremium", "Basic", "Premium")>>,
     <<"statistical_testing", Params("CoverCategory", "Gender", "Basic", "Premium")>>,
     <<"statistical_analysis_report", Params("Gender", "TotalPremium", "", "")>>,
     <<"statistical_analysis_report", Params("TotalClaims", "TotalPremium", "", "")>>,
     <<"statistical_analysis_report", Params("NewVehicle", "TotalPremium", "", "")>>,
     <<"analyze_and_report", Params("CoverCategory", "", "Basic", "Premium")>>,
     <<"data_segmentation", Params("CoverCategory", "", "Basic", "Premium")>>,
     <<"select_metrics", Params("", "", "", "")>>}

TestInit ==
    /\ tPc = "load"
    /\ \E run \in TestRuns : tScript = run[1] /\ tParams = run[2]
    /\ tFile \in TestTables \cup {Missing}
    /\ tData = NoData
    /\ tLast = NoFile
    /\ tWritten = <<>>
    /\ tMemo = {}
    /\ tFirstT = {}
    /\ tRun = 1
    /\ tRaised = "none"
    /\ tSeg = NoSeg

TestIdle ==
    /\ tPc = "idle"
    /\ tScript = "none"
    /\ tParams = Params("", "", "", "")
    /\ tFile = Missing
    /\ tData = NoData
    /\ tLast = NoFile
    /\ tWritten = <<>>
    /\ tMemo = {}
    /\ tFirstT = {}
    /\ tRun = 1
    /\ tRaised = "none"
    /\ tSeg = NoSeg

TestNext ==
    \/ ABHypothesisTesting_load_data
    \/ ABHypothesisTesting_test_risk_differences_across_provinces
    \/ ABHypothesisTesting_test_risk_differences_between_zip_codes
    \/ ABHypothesisTesting_test_margin_differences_between_zip_codes
    \/ ABHypothesisTesting_test_risk_differences_between_genders
    \/ ABHypothesisTesting_run_tests_again
    \/ StatisticalTesting_init
    \/ StatisticalTesting_conduct_statistical_tests
    \/ HypothesisTesting_init
    \/ HypothesisTesting_perform_hypothesis_testing
    \/ HypothesisTesting_perform_anova
    \/ HypothesisTesting_perform_ttest
    \/ StatisticalAnalysisReport_load_data
    \/ StatisticalAnalysisReport_analyze_and_report
    \/ AnalyzeAndReport_init
    \/ AnalyzeAndReport_analyze_and_save_report
    \/ DataSegmentation_init
    \/ DataSegmentation_segment_data
    \/ SelectMetrics_init
    \/ SelectMetrics_select_and_analyze_kpis
    \/ RunScriptAgain

(* Properties of the task-3 scripts.                                       *)

Rejections == {"reject", "not equivalent"}
Retentions == {"fail to reject", "equivalent"}
WrittenEntries == {tLast.entries[i] : i \in DOMAIN tLast.entries}

\* C6: in every hypothesis-testing script each test written to a result
\* file carries exactly one conclusion, and that conclusion is the rejection
\* of the null hypothesis if and only if the p-value is a number strictly
\* below 0.05; a p-value of 0.05, above 0.05 or not a number gives the
\* other conclusion.
C6_RejectIffPBelowAlpha ==
    \A e \in WrittenEntries :
        /\ Cardinality(e.conclusions) = 1
        /\ e.conclusions \subseteq Rejections \cup Retentions
        /\ (e.conclusions \cap Rejections # {}) <=> (e.p.k = "num" /\ e.p.n < Alpha)

\* A test with a p-value of exactly 0.05 was written with "fail to reject".
C6_Witness ==
    /\ tLast.site = "risk_differences_across_provinces"
    /\ \E e \in WrittenEntries : e.p = Num(Alpha) /\ e.conclusions = {"fail to reject"}

GenderSites == {"statistical_analysis_report", "risk_differences_between_genders"}

\* C7: with feature Gender and target TotalPremium the output of
\* StatisticalAnalysisReport.analyze_and_report, and the output of
\* ABHypothesisTesting.test_risk_differences_between_genders, holds a
\* t-statistic, a p-value and one conclusion about rejection.
C7_GenderOutputIsTTest ==
    (/\ tLast.site \in GenderSites
     /\ tLast.site = "statistical_analysis_report" => tParams.feature = "Gender")
    => /\ Len(tLast.entries) = 1
       /\ tLast.entries[1].test = "t"
       /\ Cardinality(tLast.entries[1].conclusions) = 1

\* C8: a t-test run again on the same table and the same split writes the
\* statistic, the p-value and the conclusion that its first run wrote.
C8_TTestIsDeterministic ==
    \A e \in WrittenEntries : \A f \in tFirstT :
        (e.test = "t" /\ f.site = tLast.site /\ f.e.col = e.col) => f.e = e

\* The gender t-test was run a second time on samples large enough to give
\* a p-value.
C8_Witness ==
    /\ tRun = 2
    /\ tLast.site = "risk_differences_between_genders"
    /\ \E e \in WrittenEntries : e.test = "t" /\ e.p.k = "num"

\* The columns the analyses of the running script look up in the table
\* before anything else (the columns_to_check of AnalyzeAndReport and
\* DataSegmentation aside, which their loop skips when absent).
RequiredColumns ==
    CASE tScript = "ab_hypothesis_testing" ->
            {"Province", "PostalCode", "Gender", "TotalPremium", "TotalClaims"}
      [] tScript = "hypothesis_testing" -> required_columns
      [] tScript \in {"statistical_testing", "statistical_analysis_report"} ->
            {tParams.feature, tParams.kpi}
      [] tScript = "select_metrics" -> Range(kpi_columns)
      [] OTHER -> {tParams.feature}

\* The exceptions of a failed column check and of a failed column lookup.
ColumnErrors == {"ValueError", "KeyError"}

\* C11: in every task-3 script a run on a table that lacks a column an
\* analysis requires ends without an exception for that column: the
\* analysis is skipped with a message and the run goes on.
C11_AbsentColumnIsSkipped ==
    (/\ tPc = "done"
     /\ tData.present
     /\ ~(RequiredColumns \subseteq Columns(tData)))
    => tRaised \notin ColumnErrors


DispatchScripts == {"statistical_analysis_report", "statistical_testing"}

\* C19: whatever the dtype of the column the dispatch looks at,
\* StatisticalAnalysisReport.perform_statistical_test and
\* StatisticalTesting.conduct_statistical_tests run exactly one of the
\* t-test and the chi-squared test, and the report written holds its
\* statistic, its p-value and one conclusion.
C19_DispatchRunsExactlyOneTest ==
    (/\ tScript \in DispatchScripts
     /\ tPc = "done"
     /\ tData.present
     /\ {tParams.feature, tParams.kpi} \subseteq Columns(tData))
    => /\ tRaised = "none"
       /\ tLast.site = tScript
       /\ Len(tLast.entries) = 1
       /\ tLast.entries[1].test \in {"t", "chi2"}
       /\ Cardinality(tLast.entries[1].conclusions) = 1

\* C20: for a categorical column and two non-empty groups of rows of the
\* same table the chi-squared step of StatisticalTesting, DataSegmentation
\* and AnalyzeAndReport returns a statistic and a p-value: the run does not
\* fail and writes a chi-squared entry for the column.
C20_ChiSquaredOfDisjointGroups ==
    LET group_a == RowsWhere(tData, tParams.feature, Str(tParams.control))
        group_b == RowsWhere(tData, tParams.feature, Str(tParams.test))
        column == IF tScript = "statistical_testing" THEN tParams.kpi ELSE "Gender"
    IN  (/\ tScript \in {"statistical_testing", "data_segmentation", "analyze_and_report"}
         /\ tPc = "done"
         /\ tData.present
         /\ {tParams.feature, column} \subseteq Columns(tData)
         /\ tData.dtype[column] = "object"
         /\ group_a # <<>>
         /\ group_b # <<>>
         /\ \A i \in Range(group_a) \cup Range(group_b) : ~IsNull(tData.cells[column][i]))
        => /\ tRaised = "none"
           /\ \E e \in WrittenEntries : e.col = column /\ e.test = "chi2"

\* Some column written to the result file has a p-value below 0.05.
SomeColumnBelowAlpha == \E e \in WrittenEntries : e.p.k = "num" /\ e.p.n < Alpha

\* C23: the verdict DataSegmentation and AnalyzeAndReport write is the
\* aggregate of the columns: "not equivalent" / "rejected" if and only if
\* some column of columns_to_check that the table has got a p-value below
\* 0.05; columns the table lacks get no entry and do not change the
\* verdict.
C23_VerdictIsAggregateOfColumns ==
    /\ tLast.site = "segmentation" =>
          /\ tLast.summary = IF SomeColumnBelowAlpha THEN "not equivalent" ELSE "equivalent"
          /\ \A e \in WrittenEntries : e.col \in DOMAIN tFile.cells \cap Range(columns_to_check)
    /\ tLast.site = "analysis_report" =>
          /\ tLast.summary = IF SomeColumnBelowAlpha THEN "reject" ELSE "fail to reject"
          /\ \A e \in WrittenEntries : e.col \in DOMAIN tFile.cells \cap Range(columns_to_check)

\* A segmentation was written whose only column has a p-value of exactly
\* 0.05, with the verdict "equivalent".
C23_Witness ==
    /\ tLast.site = "segmentation"
    /\ \E e \in WrittenEntries : e.p = Num(Alpha)
    /\ tLast.summary = "equivalent"

\* The four tests of run_tests in their order, each with the columns it
\* requires.
ABTests ==
    <<[site |-> "risk_differences_across_provinces", group |-> "Province"],
      [site |-> "risk_differences_between_zip_codes", group |-> "PostalCode"],
      [site |-> "margin_differences_between_zip_codes", group |-> "PostalCode"],
      [site |-> "risk_differences_between_genders", group |-> "Gender"]>>

ABRequired(t) == {t.group, "TotalPremium", "TotalClaims"}

ABSitesOf(tests) == [i \in DOMAIN tests |-> tests[i].site]

\* C24: after ABHypothesisTesting.run_tests has been called once, the result
\* files written are those of the four tests whose required columns are in
\* the table, one each and in the order provinces, zip-code risk, zip-code
\* margin, gender, and the table is the loaded one with ProfitMargin =
\* TotalPremium - TotalClaims added by the margin test when it ran.
C24_EachPresentTestWritesOneFile ==
    (tScript = "ab_hypothesis_testing" /\ tPc = "done" /\ tRun = 1 /\ tFile.exists) =>
        /\ tWritten = ABSitesOf(SelectSeq(ABTests,
                           LAMBDA t : ABRequired(t) \subseteq Columns(read_csv(tFile))))
        /\ tData = IF ABRequired(ABTests[3]) \subseteq Columns(read_csv(tFile))
                     THEN with_profit_margin(read_csv(tFile))
                     ELSE read_csv(tFile)

\* The result files of perform_hypothesis_testing, in the order of its tests.
HypothesisTests ==
    <<"anova_Risk across Provinces", "anova_Risk across Postal Codes",
      "anova_Profit Margins across Postal Codes", "ttest_Risk between Women and Men">>

\* C25: HypothesisTesting.perform_hypothesis_testing either raises on an
\* absent required column with the table as loaded and no result file
\* written, or, all five columns present, writes exactly four result files
\* in the order ANOVA risk by province, ANOVA risk by postal code, ANOVA
\* profit margin by postal code, t-test risk by gender.
C25_ColumnCheckIsAllOrNothing ==
    (tScript = "hypothesis_testing" /\ tPc = "done" /\ tFile.exists) =>
        IF required_columns \subseteq Columns(read_csv(tFile))
            THEN tWritten = HypothesisTests
            ELSE /\ tRaised = "ValueError"
                 /\ tData = read_csv(tFile)
                 /\ tWritten = <<>>

\* C27: the interpretation section of a report of
\* StatisticalAnalysisReport.analyze_and_report states a significant impact
\* of the feature on the target if and only if a test was run and its
\* p-value is below significance_level; with a p-value not below the level,
\* or no test for the feature's dtype, it states no significant impact.
C27_InterpretationFollowsPValue ==
    tLast.site = "statistical_analysis_report" =>
        /\ tLast.summary \in {"significant impact", "no significant impact"}
        /\ tLast.summary = "significant impact" <=>
                \E e \in WrittenEntries : e.p.k = "num" /\ e.p.n < significance_level

C27_Witness ==
    /\ tLast.site = "statistical_analysis_report"
    /\ tLast.summary = "significant impact"
    /\ \E e \in WrittenEntries : e.p = Num(significance_level - 1)

\* C28: with control_value different from test_value, group A and group B
\* of a segmentation share no row, every row of group A has the control
\* value and every row of group B the test value in the feature column, a
\* row with another or no feature value is in neither, and the reported
\* group sizes are the two row counts, whose sum is at most the table's.
C28_GroupsAreDisjointSelections ==
    (tData.present /\ tSeg # NoSeg /\ tParams.control # tParams.test) =>
        LET feature == tData.cells[tParams.feature]
            A == Range(tSeg.group_a)
            B == Range(tSeg.group_b)
        IN  /\ A \cap B = {}
            /\ \A i \in A : feature[i] = Str(tParams.control)
            /\ \A i \in B : feature[i] = Str(tParams.test)
            /\ \A i \in DOMAIN feature :
                    feature[i] \notin {Str(tParams.control), Str(tParams.test)}
                        => i \notin A \cup B
            /\ tSeg.reported =>
                    /\ tSeg.size_a = Cardinality(A)
                    /\ tSeg.size_b = Cardinality(B)
                    /\ tSeg.size_a + tSeg.size_b <= Len(feature)

C28_Witness ==
    /\ tData.present
    /\ tSeg.reported
    /\ tSeg.size_a >= 1
    /\ tSeg.size_b >= 1
    /\ \E i \in DOMAIN tData.cells[tParams.feature] : IsNull(tData.cells[tParams.feature][i])

-----------------------------------------------------------------------------
(* DataConverter (convert_to_csv.py).                                      *)

\* Largest number of rows of an input table, and of calls of process.
MaxConvRows == 2
MaxConvRuns == 2

\* Exceptions of read_csv and to_csv that derive from Exception.
ExceptionSubclasses == {"FileNotFoundError", "ParserError", "PermissionError"}

\* A loader whose only handler is the one for FileNotFoundError.
load_data_catches_missing_only(exc) == exc = "FileNotFoundError"

\* load_data: except FileNotFoundError, then except Exception.
load_data_catches(exc) == exc = "FileNotFoundError" \/ exc \in ExceptionSubclasses

\* convert_and_save: except Exception.
convert_and_save_catches(exc) == exc \in ExceptionSubclasses

DataConverter_load_data ==
    /\ vPc = "load"
    /\ vLoads' = vLoads + 1
    /\ LET exc == IF ~vInput.exists THEN "FileNotFoundError" ELSE vReadError
       IN  IF exc = "none"
           THEN /\ vData' = read_csv(vInput)
                /\ vPrinted' = Append(vPrinted, "loaded")
                /\ vPc' = "save"
                /\ UNCHANGED vRaised
           ELSE IF load_data_catches(exc)
           THEN /\ vData' = NoData
                /\ vPrinted' = Append(vPrinted, IF exc = "FileNotFoundError"
                                                 THEN "does not exist" ELSE "load error")
                /\ vPc' = "save"
                /\ UNCHANGED vRaised
           ELSE /\ vRaised' = exc
                /\ vPc' = "done"
                /\ UNCHANGED <<vData, vPrinted>>
    /\ UNCHANGED <<vInput, vReadError, vWriteError, vOutput, vOutBefore, vRun>>
    /\ UNCHANGED nonConvVars

\* What a failed to_csv can leave behind: the file as it was, or the file
\* opened for writing and cut short.
cut_short(df) == CsvFile([c \in Columns(df) |-> <<>>])

DataConverter_convert_and_save ==
    /\ vPc = "save"
    /\ IF ~vData.present
         THEN UNCHANGED <<vOutput, vPrinted, vRaised>>
         ELSE IF vWriteError = "none"
         THEN /\ vOutput' = to_csv(vData)
              /\ vPrinted' = Append(vPrinted, "saved")
              /\ UNCHANGED vRaised
         ELSE /\ vOutput' \in {vOutput, cut_short(vData)}
              /\ IF convert_and_save_catches(vWriteError)
                   THEN /\ vPrinted' = Append(vPrinted, "save error")
                        /\ UNCHANGED vRaised
                   ELSE /\ vRaised' = vWriteError
                        /\ UNCHANGED vPrinted
    /\ vPc' = "done"
    /\ UNCHANGED <<vInput, vReadError, vWriteError, vOutBefore, vData, vLoads, vRun>>
    /\ UNCHANGED nonConvVars

\* process is called again on the same object.
DataConverter_process_again ==
    /\ vPc = "done"
    /\ vRaised = "none"
    /\ vRun < MaxConvRuns
    /\ vRun' = vRun + 1
    /\ vPc' = "load"
    /\ vOutBefore' = vOutput
    /\ vData' = NoData
    /\ vLoads' = 0
    /\ vPrinted' = <<>>
    /\ UNCHANGED <<vInput, vReadError, vWriteError, vOutput, vRaised>>
    /\ UNCHANGED nonConvVars

ConvTables ==
    UNION {{CsvFile([c \in {"Make", "TotalPremium"} |->
                        IF c = "TotalPremium" THEN texts
                        ELSE [i \in 1..n |-> Str("Bmw")]]) :
                texts \in [1..n -> OutlierTexts]} : n \in 1..MaxConvRows}

OldOutput == CsvFile([c \in {"Make"} |-> <<Str("Audi")>>])

ConvInit ==
    /\ vPc = "load"
    /\ vInput \in ConvTables \cup {Missing}
    /\ vReadError \in {"none", "ParserError", "PermissionError"}
    /\ vWriteError \in {"none", "PermissionError"}
    /\ vOutput \in {Missing, OldOutput}
    /\ vOutBefore = vOutput
    /\ vData = NoData
    /\ vLoads = 0
    /\ vPrinted = <<>>
    /\ vRun = 1
    /\ vRaised = "none"

ConvIdle ==
    /\ vPc = "idle"
    /\ vInput = Missing
    /\ vReadError = "none"
    /\ vWriteError = "none"
    /\ vOutput = Missing
    /\ vOutBefore = Missing
    /\ vData = NoData
    /\ vLoads = 0
    /\ vPrinted = <<>>
    /\ vRun = 1
    /\ vRaised = "none"

ConvNext ==
    \/ DataConverter_load_data
    \/ DataConverter_convert_and_save
    \/ DataConverter_process_again

LoadFailed == vPc \in {"save", "done"} /\ (~vInput.exists \/ vReadError # "none")
SaveFailed == vPc = "done" /\ ~LoadFailed /\ vWriteError # "none"
Printed(m) == \E i \in DOMAIN vPrinted : vPrinted[i] = m

\* C9: DataConverter.process never propagates an exception: a missing
\* input file, any other read error and any write error are caught and
\* reported; after a failed load the load is not tried again and the output
\* CSV is neither created nor modified.
C9_ConverterNeverPropagates ==
    /\ vRaised = "none"
    /\ vLoads <= 1
    /\ LoadFailed =>
        /\ vOutput = vOutBefore
        /\ IF vInput.exists THEN Printed("load error") ELSE Printed("does not exist")
        /\ ~Printed("saved")
    /\ SaveFailed => Printed("save error")

\* process has returned after a read error on an existing input, with the
\* earlier output file still in place.
C9_Witness ==
    /\ vPc = "done"
    /\ vInput.exists
    /\ vReadError = "ParserError"
    /\ vOutput = OldOutput
    /\ vLoads = 1

-----------------------------------------------------------------------------
(* Every script of the repository and a missing input file.  A script is   *)
(* its load of the input file, then analysis steps and output files.  The  *)
(* load is handled in one of four ways:                                    *)
(*   "exit"        try/except FileNotFoundError: print, exit()             *)
(*   "none_value"  try/except: print, go on with no data; every later step *)
(*                 is guarded by a test for no data                        *)
(*   "reraise"     try/except FileNotFoundError: print, raise              *)
(*   "no_handler"  pd.read_csv is called outside any try                   *)

\* Largest number of analysis steps and of output files of one run.
MaxSteps == 2

Script(path, handler) == [path |-> path, handler |-> handler]

\* Every script with the handling of its pd.read_csv call.
Scripts ==
    {
     \* load_data, lines 22-38
     Script("convert_to_csv.py", "none_value"),
     \* lines 19-24
     Script("data_summarization.py", "exit"),
     \* line 11
     Script("eda_visualization_key_insights.py", "no_handler"),
     \* load_data, lines 19-32
     Script("load_and_clean_data.py", "none_value"),
     \* line 11
     Script("outlier_detection_box_plots.py", "no_handler"),
     \* _load_data, lines 15-21
     Script("task-1/bivariate_multivariate_analysis.py", "reraise"),
     \* load_data, lines 24-32
     Script("task-1/data_comparison_trends_over_geography.py", "exit"),
     \* load_data, lines 20-28
     Script("task-1/data_summarization.py", "exit"),
     \* __init__, line 18
     Script("task-1/eda_visualization_key_insights.py", "no_handler"),
     \* __init__, line 18
     Script("task-1/outlier_detection_box_plots.py", "no_handler"),
     \* __init__, line 18
     Script("task-1/univariate_analysis.py", "no_handler"),
     \* load_data, lines 20-28
     Script("task-3/ab_hypothesis_testing.py", "exit"),
     \* __init__, line 14
     Script("task-3/analyze_and_report.py", "no_handler"),
     \* __init__, line 15
     Script("task-3/data_segmentation.py", "no_handler"),
     \* __init__, line 15
     Script("task-3/hypothesis_testing.py", "no_handler"),
     \* __init__, line 14
     Script("task-3/select_metrics.py", "no_handler"),
     \* load_data, lines 24-32
     Script("task-3/statistical_analysis_report.py", "exit"),
     \* __init__, line 15
     Script("task-3/statistical_testing.py", "no_handler"),
     \* __init__, line 19
     Script("task-4/data_preparation.py", "no_handler"),
     \* __init__, line 18
     Script("task-4/feature_importance_analysis.py", "no_handler"),
     \* __init__, line 13
     Script("task-4/model_builder.py", "no_handler"),
     \* __init__, line 19
     Script("task-4/model_comparison_report.py", "no_handler"),
     \* __init__, line 18
     Script("task-4/model_evaluation.py", "no_handler"),
     \* __init__, line 18
     Script("task-4/model_interpretation_shap.py", "no_handler"),
     \* __main__, line 91
     Script("task-4/modeling_techniques.py", "no_handler"),
     \* __init__, line 12
     Script("task-4/shap_model_interpretation.py", "no_handler")}

Script_load ==
    /\ sPc = "start"
    /\ IF sExists
         THEN /\ sPc' = "run"
              /\ UNCHANGED <<sPrinted, sStop>>
         ELSE CASE sScript.handler = "exit" ->
                    /\ sPrinted' = TRUE
                    /\ sStop' = "exit"
                    /\ sPc' = "done"
                [] sScript.handler = "none_value" ->
                    /\ sPrinted' = TRUE
                    /\ sPc' = "guarded"
                    /\ UNCHANGED sStop
                [] sScript.handler = "reraise" ->
                    /\ sPrinted' = TRUE
                    /\ sStop' = "FileNotFoundError"
                    /\ sPc' = "done"
                [] OTHER ->
                    /\ sStop' = "FileNotFoundError"
                    /\ sPc' = "done"
                    /\ UNCHANGED sPrinted
    /\ UNCHANGED <<sScript, sExists, sSteps, sOutputs>>
    /\ UNCHANGED nonScriptVars

\* The steps after a load that gave no data: each tests for no data and
\* does nothing.
Script_guarded_steps ==
    /\ sPc = "guarded"
    /\ sStop' = "return"
    /\ sPc' = "done"
    /\ UNCHANGED <<sScript, sExists, sPrinted, sSteps, sOutputs>>
    /\ UNCHANGED nonScriptVars

Script_analysis_step ==
    /\ sPc = "run"
    /\ sSteps < MaxSteps
    /\ sSteps' = sSteps + 1
    /\ UNCHANGED <<sPc, sScript, sExists, sPrinted, sStop, sOutputs>>
    /\ UNCHANGED nonScriptVars

Script_write_output ==
    /\ sPc = "run"
    /\ sOutputs < MaxSteps
    /\ sOutputs' = sOutputs + 1
    /\ UNCHANGED <<sPc, sScript, sExists, sPrinted, sStop, sSteps>>
    /\ UNCHANGED nonScriptVars

Script_end ==
    /\ sPc = "run"
    /\ sStop' = "end"
    /\ sPc' = "done"
    /\ UNCHANGED <<sScript, sExists, sPrinted, sSteps, sOutputs>>
    /\ UNCHANGED nonScriptVars

ScriptInit ==
    /\ sPc = "start"
    /\ sScript \in Scripts
    /\ sExists \in BOOLEAN
    /\ sPrinted = FALSE
    /\ sStop = "running"
    /\ sSteps = 0
    /\ sOutputs = 0

ScriptIdle ==
    /\ sPc = "idle"
    /\ sScript = Script("none", "none")
    /\ sExists = FALSE
    /\ sPrinted = FALSE
    /\ sStop = "running"
    /\ sSteps = 0
    /\ sOutputs = 0

ScriptNext ==
    \/ Script_load
    \/ Script_guarded_steps
    \/ Script_analysis_step
    \/ Script_write_output
    \/ Script_end

\* C10: in every script a missing input file is caught: a message is
\* printed, the script stops by exit or by returning null and not by an
\* uncaught exception, and afterwards no analysis step has run and no output
\* file has been written.
C10_MissingFileIsCaught ==
    (~sExists /\ sPc \notin {"idle", "start"}) =>
        /\ sPrinted
        /\ sStop \in {"running", "exit", "return"}
        /\ sPc = "done" => sStop \in {"exit", "return"}
        /\ sSteps = 0
        /\ sOutputs = 0

-----------------------------------------------------------------------------
(* The results files.  Every downstream script writes its results with     *)
(* one or two write statements; the path of a file is the directory and    *)
(* the name pattern of the statement, with datetime.now() formatted into   *)
(* the name where the pattern holds a timestamp.  The time is counted in   *)
(* ticks shorter than a second.                                            *)

\* Largest value of the clock.
MaxTicks == 4

TicksPerSecond == 1 + 1

\* datetime.now().strftime("%Y%m%d_%H%M%S"): the time cut to its second.
strftime(now) == now \div TicksPerSecond

\* A write statement: the script, the directory (relative to the script's
\* own) and the pattern of the file name.
Site(script, dir, pattern) == [script |-> script, dir |-> dir, pattern |-> pattern]

ResultSites ==
    {
     \* lines 23-25
     Site("eda_visualization_key_insights.py",
          "../results/data_comparision", "{plot_name}_{timestamp}.png"),
     \* lines 23-25
     Site("outlier_detection_box_plots.py",
          "../results/outlier", "{plot_name}_{timestamp}.png"),
     \* lines 44-45
     Site("data_summarization.py",
          "../results/data_summarization", "data_summary.csv"),
     \* lines 31-33
     Site("task-1/bivariate_multivariate_analysis.py",
          "../../../results/bivariate", "{plot_name}_{timestamp}.png"),
     \* lines 36-38
     Site("task-1/data_comparison_trends_over_geography.py",
          "../../../results/data_comparision", "{plot_name}_{timestamp}.png"),
     \* lines 54-55, name from line 68
     Site("task-1/data_summarization.py",
          "../../../results/data_summarization", "data_summary.csv"),
     \* lines 35-37
     Site("task-1/eda_visualization_key_insights.py",
          "../../../results/visualizations", "{plot_name}_{timestamp}.png"),
     \* lines 35-37
     Site("task-1/outlier_detection_box_plots.py",
          "../../../results/outlier", "{plot_name}_{timestamp}.png"),
     \* lines 35-37
     Site("task-1/univariate_analysis.py",
          "../../../results/univariate", "{plot_name}_{timestamp}.png"),
     \* lines 31-33
     Site("task-3/ab_hypothesis_testing.py",
          "../../results/ab_testing", "{filename}_{timestamp}.txt"),
     \* lines 85-87
     Site("task-3/analyze_and_report.py",
          "../../../reports", "analysis_report_{feature_column}_{timestamp}.txt"),
     \* lines 32-34
     Site("task-3/data_segmentation.py",
          "../../../results/data_segmentation", "{feature_name}_segmentation_{timestamp}.txt"),
     \* lines 32-34
     Site("task-3/hypothesis_testing.py",
          "../../../results/hypothesis_testing", "{test_name}_results_{timestamp}.txt"),
     \* lines 31-33
     Site("task-3/select_metrics.py",
          "../../../results/kpi_analysis", "{kpi_name}_details_{timestamp}.txt"),
     \* lines 35-37
     Site("task-3/statistical_analysis_report.py",
          "../../results/statistical_analysis_reports", "{filename}_{timestamp}.txt"),
     \* lines 32-34
     Site("task-3/statistical_testing.py",
          "../../../results/statistical_testing", "{test_name}_results_{timestamp}.txt"),
     \* lines 35-37
     Site("task-4/data_preparation.py",
          "../../../results/data_preparation", "preparation_details_{timestamp}.txt"),
     \* lines 56-58
     Site("task-4/feature_importance_analysis.py",
          "../../../results/feature_importance_results", "feature_importance_{model_name}_{timestamp}.png"),
     \* lines 85-87
     Site("task-4/model_comparison_report.py",
          "../../../results/model_comparison_results", "model_comparison_report_{timestamp}.csv"),
     \* lines 110-111
     Site("task-4/model_comparison_report.py",
          "../../../results/model_comparison_results", "model_comparison_plot.png"),
     \* lines 35-37
     Site("task-4/model_evaluation.py",
          "../../../results/model_evaluation_results", "{model_name}_metrics_{timestamp}.txt"),
     \* lines 41-43
     Site("task-4/model_interpretation_shap.py",
          "../../../results/shap_results", "shap_summary_{model_name}_{timestamp}.png")}

Path(dir, pattern, stamp) == [dir |-> dir, pattern |-> pattern, stamp |-> stamp]

\* The two data files, main_data/ml.csv and main_data/cleaned_ml.csv.
DataPaths == {Path("main_data", "ml.csv", -1), Path("main_data", "cleaned_ml.csv", -1)}

\* The pattern holds a timestamp when its name carries the placeholder.
Stamped ==
    {"{plot_name}_{timestamp}.png", "{filename}_{timestamp}.txt",
     "analysis_report_{feature_column}_{timestamp}.txt",
     "{feature_name}_segmentation_{timestamp}.txt", "{test_name}_results_{timestamp}.txt",
     "{kpi_name}_details_{timestamp}.txt", "preparation_details_{timestamp}.txt",
     "feature_importance_{model_name}_{timestamp}.png",
     "model_comparison_report_{timestamp}.csv", "{model_name}_metrics_{timestamp}.txt",
     "shap_summary_{model_name}_{timestamp}.png"}

\* A script that writes over the file it read.
input_path(site, now) == Path("main_data", "cleaned_ml.csv", -1)

\* os.path.join(directory, f"..._{timestamp}...") of a write statement.
output_path(site, now) ==
    Path(site.script \o "/" \o site.dir, site.pattern,
         IF site.pattern \in Stamped THEN strftime(now) ELSE -1)

\* Any write statement of any script writes its file now.  Of the results
\* files only those in the directory of rSite are followed.
Script_save_result ==
    /\ \E site \in ResultSites :
        LET path == output_path(site, rClock)
        IN  /\ rData' = [p \in DataPaths |-> IF p = path THEN site.script ELSE rData[p]]
            /\ rFiles' = IF path.dir = output_path(rSite, rClock).dir
                           THEN {f \in rFiles : f.path # path}
                                    \cup {[path |-> path, tick |-> rClock]}
                           ELSE rFiles
    /\ UNCHANGED <<rSite, rClock, rLogs>>
    /\ UNCHANGED nonResultVars

\* The write statement of DataPreparation.log_preparation_details.
preparation_site ==
    Site("task-4/data_preparation.py",
         "../../../results/data_preparation", "preparation_details_{timestamp}.txt")

\* One of the four calls of log_preparation_details that process_data
\* makes (handle_missing_data, feature_engineering, encode_categorical_data,
\* train_test_split_data): the file is opened with "w" at the path of now.
DataPreparation_log_preparation_details ==
    /\ Len(rLogs) < 4
    /\ LET path == output_path(preparation_site, rClock)
       IN  /\ rLogs' = Append(rLogs, path)
           /\ rFiles' = IF path.dir = output_path(rSite, rClock).dir
                          THEN {f \in rFiles : f.path # path}
                                   \cup {[path |-> path, tick |-> rClock]}
                          ELSE rFiles
    /\ UNCHANGED <<rSite, rClock, rData>>
    /\ UNCHANGED nonResultVars

Clock_tick ==
    /\ rClock < MaxTicks
    /\ rClock' = rClock + 1
    /\ UNCHANGED <<rSite, rFiles, rData, rLogs>>
    /\ UNCHANGED nonResultVars

ResultInit ==
    /\ rSite \in ResultSites
    /\ rClock = 0
    /\ rFiles = {}
    /\ rData = [p \in DataPaths |-> "pipeline"]
    /\ rLogs = <<>>

ResultIdle ==
    /\ rSite = Site("none", "none", "none")
    /\ rClock = 0
    /\ rFiles = {}
    /\ rData = [p \in DataPaths |-> "pipeline"]
    /\ rLogs = <<>>

ResultNext ==
    \/ Script_save_result
    \/ DataPreparation_log_preparation_details
    \/ Clock_tick

\* C12: every results file has a name made of a topic and a timestamp, so a
\* results file is never replaced by a file written in a later second.
C12_LaterRunsNeverOverwrite ==
    [][\A f \in rFiles :
          \/ f \in rFiles'
          \/ \E g \in rFiles' : g.path = f.path /\ strftime(g.tick) = strftime(f.tick)]_vars

\* C22: the four calls of log_preparation_details of one run of
\* process_data leave four files: no call writes over the file of an
\* earlier call, also when two calls fall in the same second.
C22_EachLogCallLeavesItsOwnFile ==
    \A i, j \in DOMAIN rLogs : rLogs[i] = rLogs[j] => i = j

\* C17: whatever downstream scripts have run, in whatever order,
\* main_data/cleaned_ml.csv and main_data/ml.csv are as the pipeline wrote
\* them.
C17_DataFilesAreReadOnly ==
    \A p \in DataPaths : rData[p] = "pipeline"

\* Results files of two different seconds stand side by side.
C17_Witness ==
    /\ rSite.script = "task-3/ab_hypothesis_testing.py"
    /\ Cardinality({strftime(f.tick) : f \in rFiles}) >= 2
    /\ C17_DataFilesAreReadOnly

-----------------------------------------------------------------------------
(* The task-4 scripts: each reads the cleaned CSV, prepares a feature      *)
(* matrix and, data_preparation.py aside, calls fit on the training rows.  *)

\* Largest number of rows of a cleaned table given to a task-4 script.
MaxModelRows == 3

\* data.select_dtypes(include=['object']).columns
object_columns(df) == {c \in Columns(df) : df.dtype[c] = "object"}

\* data.select_dtypes(include=["number"]).columns
number_columns(df) == {c \in Columns(df) : df.dtype[c] \in NumericDtypes}

\* pd.to_datetime(col).apply(lambda x: x.toordinal())
toordinal(c) == Num((IF c.n = 1 THEN 735658 ELSE 735689) * Scale)

\* pd.factorize(col)[0]: the values numbered in order of first appearance,
\* a null as -1.
factorize(cells) ==
    LET first(v) == CHOOSE i \in DOMAIN cells : cells[i] = v /\ \A j \in 1..(i - 1) : cells[j] # v
        code(v) == Cardinality({first(w) : w \in {x \in Range(cells) : ~IsNull(x)}}
                                   \cap 1..(first(v) - 1))
    IN  [i \in DOMAIN cells |->
            IF IsNull(cells[i]) THEN Num(-Scale) ELSE Num(code(cells[i]) * Scale)]

\* Series.mean(): skips nulls; rounded down to the precision of the model.
mean(cells) ==
    LET v == NonNull(cells)
    IN  IF v = <<>> THEN NaN ELSE Num(SumSeq(v) \div Len(v))

\* The loop over the object columns in preprocess_data and in
\* ModelingTechniques.__init__: a column of dates becomes day numbers, any
\* other column the codes of factorize.
convert_non_numeric(df) ==
    LET dates(c) == to_datetime(Col(df, c)).cells
        isDate(c) == \A i \in DOMAIN dates(c) : ~IsNull(dates(c)[i])
    IN  Frame([c \in Columns(df) |-> IF df.dtype[c] = "object" THEN "int64" ELSE df.dtype[c]],
              [c \in Columns(df) |->
                 IF df.dtype[c] # "object" THEN df.cells[c]
                 ELSE IF isDate(c) THEN [i \in DOMAIN dates(c) |-> toordinal(dates(c)[i])]
                 ELSE factorize(df.cells[c])])

\* data.fillna(data.mean(), inplace=True); data.fillna(0, inplace=True)
fill_with_mean(df) ==
    Frame(df.dtype,
          [c \in Columns(df) |-> fillna(fillna(df.cells[c], mean(df.cells[c])), Num(0))])

\* ModelBuilder.preprocess_data
preprocess_data(df) == fill_with_mean(convert_non_numeric(df))

\* Whether a SimpleImputer or OneHotEncoder call of DataPreparation raises
\* ValueError: fit_transform of a selection of no columns, or an imputed
\* array that lost a column with no value at all.
preparation_raises(df) ==
    \/ number_columns(df) = {}
    \/ object_columns(df) = {}
    \/ \E c \in number_columns(df) : \A i \in DOMAIN df.cells[c] : IsNull(df.cells[c][i])

\* DataPreparation.handle_missing_data: the median fills the numerical
\* columns (which come back as floats), the most frequent value the object
\* columns.
handle_missing_data(df) ==
    Frame([c \in Columns(df) |-> IF c \in number_columns(df) THEN "float64" ELSE df.dtype[c]],
          [c \in Columns(df) |->
             IF c \in number_columns(df) THEN fillna(df.cells[c], median(df.cells[c]))
             ELSE IF c \in object_columns(df) THEN fillna(df.cells[c], mode(df.cells[c])[1])
             ELSE df.cells[c]])

\* The float infinity (of either sign).
Inf == [k |-> "inf", n |-> 0, s |-> ""]

\* data['TotalPremium'] / data['SumInsured'] on float64 columns, rounded
\* down to the precision of the model: 0 / 0 is NaN and any other number
\* over 0 is infinite.
f_div(a, b) ==
    IF IsNull(a) \/ IsNull(b) THEN NaN
    ELSE IF b.n = 0 THEN (IF a.n = 0 THEN NaN ELSE Inf)
    ELSE Num((a.n * Scale) \div b.n)

\* DataPreparation.feature_engineering
feature_engineering(df) ==
    Frame([c \in Columns(df) \cup {"PremiumToSumRatio"} |->
             IF c = "PremiumToSumRatio" THEN "float64" ELSE df.dtype[c]],
          [c \in Columns(df) \cup {"PremiumToSumRatio"} |->
             IF c = "PremiumToSumRatio"
             THEN [i \in DOMAIN df.cells["TotalPremium"] |->
                     f_div(df.cells["TotalPremium"][i], df.cells["SumInsured"][i])]
             ELSE df.cells[c]])

\* encoder.get_feature_names_out: the indicator columns of a column, one
\* per value but the first in sorted order (drop='first').
indicator_values(cells) ==
    {v \in Range(cells) : \E w \in Range(cells) : TextKey(w) < TextKey(v)}

indicator_name(c, v) == c \o "_" \o v.s

\* DataPreparation.encode_categorical_data
encode_categorical_data(df) ==
    LET categorical == object_columns(df)
        kept == Columns(df) \ categorical
        pairs == UNION {{<<c, v>> : v \in indicator_values(df.cells[c])} : c \in categorical}
        source(name) == CHOOSE cv \in pairs : indicator_name(cv[1], cv[2]) = name
        encoded == {indicator_name(cv[1], cv[2]) : cv \in pairs}
    IN  Frame([c \in kept \cup encoded |-> IF c \in kept THEN df.dtype[c] ELSE "float64"],
              [c \in kept \cup encoded |->
                 IF c \in kept THEN df.cells[c]
                 ELSE [i \in DOMAIN df.cells[source(c)[1]] |->
                         IF df.cells[source(c)[1]][i] = source(c)[2]
                         THEN Num(Scale) ELSE Num(0)]])

NumRows(df) == Len(df.cells[CHOOSE c \in Columns(df) : TRUE])

TakeRows(df, rows) ==
    Frame(df.dtype, [c \in Columns(df) |-> [j \in DOMAIN rows |-> df.cells[c][rows[j]]]])

\* train_test_split(X, y, test_size=tenths/10, random_state=42): the rows
\* of the training set, in the order of the shuffle.  The test set takes
\* ceil(test_size * n) rows; the order the seed gives is not modelled, every
\* order is allowed.
train_rows(n, tenths) ==
    LET n_train == n - ((tenths * n + 9) \div 10)
    IN  {rows \in [1..n_train -> 1..n] :
            \A i, j \in 1..n_train : rows[i] = rows[j] => i = j}

\* The scripts whose models include LinearRegression.
LinearRegressionScripts ==
    {"model_builder", "modeling_techniques", "model_evaluation", "model_comparison_report"}

\* How model.fit(X_train, y_train) of the script's models can end: every
\* model raises ValueError on a text column; LinearRegression raises it on
\* a missing value, which the tree models accept or not by their version.
fit(script, train, features) ==
    IF \E c \in features : train.dtype[c] = "object" THEN {"ValueError"}
    ELSE IF \E c \in Columns(train) : \E i \in DOMAIN train.cells[c] : IsNull(train.cells[c][i])
         THEN IF script \in LinearRegressionScripts THEN {"ValueError"}
              ELSE {"none", "ValueError"}
    ELSE {"none"}

\* X = data.drop(targets), the split, and fit on the training rows.
\* train_test_split raises ValueError when no training row is left.
split_and_fit(script, data, targets, tenths) ==
    LET X == DropCols(data, targets)
    IN  IF train_rows(NumRows(data), tenths) = {<<>>}
        THEN /\ mRaised' = "ValueError"
             /\ UNCHANGED <<mX, mFit>>
        ELSE \E rows \in train_rows(NumRows(data), tenths) :
                /\ mX' = TakeRows(X, rows)
                /\ mFit' = TRUE
                /\ mRaised' \in fit(script, TakeRows(data, rows), Columns(X))

ModelScripts ==
    {"data_preparation", "model_builder", "modeling_techniques", "shap_model_interpretation",
     "model_evaluation", "feature_importance_analysis", "model_comparison_report",
     "model_interpretation_shap"}

\* pd.read_csv(data_path, low_memory=False) in the constructor (in the
\* __main__ block of modeling_techniques.py), without a handler.
Model_read_csv ==
    /\ mPc = "load"
    /\ IF mFile.exists
         THEN /\ mData' = read_csv(mFile)
              /\ mPc' = "prepare"
              /\ UNCHANGED mRaised
         ELSE /\ mRaised' = "FileNotFoundError"
              /\ mPc' = "done"
              /\ UNCHANGED mData
    /\ UNCHANGED <<mScript, mFile, mX, mFit>>
    /\ UNCHANGED nonModelVars

\* DataPreparation.process_data: the three preparation steps and the
\* split; no model is fitted.
DataPreparation_process_data ==
    /\ mScript = "data_preparation"
    /\ mPc = "prepare"
    /\ mPc' = "done"
    /\ IF preparation_raises(mData)
         THEN /\ mRaised' = "ValueError"
              /\ UNCHANGED <<mData, mX>>
         ELSE LET data == encode_categorical_data(feature_engineering(handle_missing_data(mData)))
                  rows == train_rows(NumRows(data), 2)
              IN  /\ mData' = data
                  /\ IF rows = {<<>>}
                       THEN /\ mRaised' = "ValueError"
                            /\ UNCHANGED mX
                       ELSE /\ \E r \in rows :
                                  mX' = TakeRows(DropCols(data, {"TotalPremium", "TotalClaims"}), r)
                            /\ UNCHANGED mRaised
    /\ UNCHANGED <<mScript, mFile, mFit>>
    /\ UNCHANGED nonModelVars

\* ModelBuilder: preprocess_data (called by __init__) and run_models.
ModelBuilder_run_models ==
    /\ mScript = "model_builder"
    /\ mPc = "prepare"
    /\ mPc' = "done"
    /\ mData' = preprocess_data(mData)
    /\ split_and_fit(mScript, mData', {"TotalPremium"}, 3)
    /\ UNCHANGED <<mScript, mFile>>
    /\ UNCHANGED nonModelVars

\* ModelingTechniques: __init__ and run_all_models.
ModelingTechniques_run_all_models ==
    /\ mScript = "modeling_techniques"
    /\ mPc = "prepare"
    /\ mPc' = "done"
    /\ mData' = convert_non_numeric(mData)
    /\ split_and_fit(mScript, mData', {"TotalPremium"}, 3)
    /\ UNCHANGED <<mScript, mFile>>
    /\ UNCHANGED nonModelVars

\* SHAPModelInterpretation: preprocess_data (called by __init__) and
\* run_analysis up to train_model.
SHAPModelInterpretation_run_analysis ==
    /\ mScript = "shap_model_interpretation"
    /\ mPc = "prepare"
    /\ mPc' = "done"
    /\ mData' = convert_non_numeric(mData)
    /\ split_and_fit(mScript, mData', {"TotalPremium"}, 3)
    /\ UNCHANGED <<mScript, mFile>>
    /\ UNCHANGED nonModelVars

\* The four scripts that drop the two targets, split and fit: the columns
\* of the table go to fit as read_csv gave them.
ModelEvaluation_prepare_and_evaluate ==
    /\ mScript = "model_evaluation"
    /\ mPc = "prepare"
    /\ mPc' = "done"
    /\ split_and_fit(mScript, mData, {"TotalPremium", "TotalClaims"}, 2)
    /\ UNCHANGED <<mScript, mFile, mData>>
    /\ UNCHANGED nonModelVars

FeatureImportanceAnalysis_analyze_feature_importance ==
    /\ mScript = "feature_importance_analysis"
    /\ mPc = "prepare"
    /\ mPc' = "done"
    /\ split_and_fit(mScript, mData, {"TotalPremium", "TotalClaims"}, 2)
    /\ UNCHANGED <<mScript, mFile, mData>>
    /\ UNCHANGED nonModelVars

ModelComparisonReport_compare_models ==
    /\ mScript = "model_comparison_report"
    /\ mPc = "prepare"
    /\ mPc' = "done"
    /\ split_and_fit(mScript, mData, {"TotalPremium", "TotalClaims"}, 2)
    /\ UNCHANGED <<mScript, mFile, mData>>
    /\ UNCHANGED nonModelVars

ModelInterpretationSHAP_interpret_model_predictions ==
    /\ mScript = "model_interpretation_shap"
    /\ mPc = "prepare"
    /\ mPc' = "done"
    /\ split_and_fit(mScript, mData, {"TotalPremium", "TotalClaims"}, 2)
    /\ UNCHANGED <<mScript, mFile, mData>>
    /\ UNCHANGED nonModelVars

(* The cleaned tables the task-4 scripts are run on.                       *)

ModelColumns == {"Gender", "TransactionMonth", "SumInsured", "TotalPremium", "TotalClaims"}

\* Four kinds of policy row; the third lacks its gender and its sum
\* insured, the fourth has a sum insured and a premium of zero.
ModelRows ==
    {[Gender |-> Str("Male"), TransactionMonth |-> Str("2015-03-01"),
      SumInsured |-> Whole(2), TotalPremium |-> Whole(1), TotalClaims |-> Whole(0)],
     [Gender |-> Str("Female"), TransactionMonth |-> Str("2015-04-01"),
      SumInsured |-> Whole(1), TotalPremium |-> Whole(2), TotalClaims |-> Whole(1)],
     [Gender |-> Str(""), TransactionMonth |-> Str("2015-03-01"),
      SumInsured |-> Str(""), TotalPremium |-> Whole(2), TotalClaims |-> Whole(0)],
     [Gender |-> Str("Male"), TransactionMonth |-> Str("2015-04-01"),
      SumInsured |-> Whole(0), TotalPremium |-> Whole(0), TotalClaims |-> Whole(0)]}

\* A table holds all the columns or the numeric ones only.
ModelDropped == {{}, {"Gender", "TransactionMonth"}}

ModelTables ==
    UNION {{CsvFile([c \in ModelColumns \ d |-> [i \in 1..n |-> rows[i][c]]]) :
                rows \in [1..n -> ModelRows], d \in ModelDropped} : n \in 1..MaxModelRows}

ModelInit ==
    /\ mPc = "load"
    /\ mScript \in ModelScripts
    /\ mFile \in ModelTables \cup {Missing}
    /\ mData = NoData
    /\ mX = NoData
    /\ mFit = FALSE
    /\ mRaised = "none"

ModelIdle ==
    /\ mPc = "idle"
    /\ mScript = "none"
    /\ mFile = Missing
    /\ mData = NoData
    /\ mX = NoData
    /\ mFit = FALSE
    /\ mRaised = "none"

ModelNext ==
    \/ Model_read_csv
    \/ DataPreparation_process_data
    \/ ModelBuilder_run_models
    \/ ModelingTechniques_run_all_models
    \/ SHAPModelInterpretation_run_analysis
    \/ ModelEvaluation_prepare_and_evaluate
    \/ FeatureImportanceAnalysis_analyze_feature_importance
    \/ ModelComparisonReport_compare_models
    \/ ModelInterpretationSHAP_interpret_model_predictions

(* Properties of the task-4 scripts.                                       *)

\* The text columns of the cleaned table that are features.
TextFeatures == object_columns(read_csv(mFile)) \ {"TotalPremium", "TotalClaims"}

\* C18: in every task-4 script the feature matrix passed to fit holds no
\* text column: each text column of the cleaned table has been replaced by
\* one-hot indicator columns.
C18_FitSeesOnlyOneHotColumns ==
    mFit => /\ object_columns(mX) = {}
            /\ TextFeatures \cap Columns(mX) = {}

\* A cell that is missing or not a finite number.
Undefined(c) == IsNull(c) \/ c = Inf

\* C29: when DataPreparation.process_data returns, the prepared table, of
\* whose rows X_train, X_test, y_train and y_test are made, holds no missing
\* or undefined value and no text column, and the features hold neither
\* TotalPremium nor TotalClaims.
C29_PreparedTableIsComplete ==
    (mScript = "data_preparation" /\ mPc = "done" /\ mRaised = "none") =>
        /\ object_columns(mData) = {}
        /\ \A c \in Columns(mData) : \A i \in DOMAIN mData.cells[c] : ~Undefined(mData.cells[c][i])
        /\ Columns(mX) = Columns(mData) \ {"TotalPremium", "TotalClaims"}
        /\ \A c \in Columns(mX) : \A i \in DOMAIN mX.cells[c] : ~Undefined(mX.cells[c][i])

-----------------------------------------------------------------------------
(* Specifications: one per script, the other scripts standing idle.        *)

CleanSpecInit == CleanInit /\ OutlierIdle /\ TestIdle /\ ConvIdle /\ ScriptIdle /\ ResultIdle /\ ModelIdle
CleanSpec == CleanSpecInit /\ [][CleanNext]_vars

OutlierSpecInit == OutlierInit /\ CleanIdle /\ TestIdle /\ ConvIdle /\ ScriptIdle /\ ResultIdle /\ ModelIdle
OutlierSpec == OutlierSpecInit /\ [][OutlierNext]_vars

TestSpecInit == TestInit /\ CleanIdle /\ OutlierIdle /\ ConvIdle /\ ScriptIdle /\ ResultIdle /\ ModelIdle
TestSpec == TestSpecInit /\ [][TestNext]_vars

ConvSpecInit == ConvInit /\ CleanIdle /\ OutlierIdle /\ TestIdle /\ ScriptIdle /\ ResultIdle /\ ModelIdle
ConvSpec == ConvSpecInit /\ [][ConvNext]_vars

ScriptSpecInit == ScriptInit /\ CleanIdle /\ OutlierIdle /\ TestIdle /\ ConvIdle /\ ResultIdle /\ ModelIdle
ScriptSpec == ScriptSpecInit /\ [][ScriptNext]_vars

ResultSpecInit == ResultInit /\ CleanIdle /\ OutlierIdle /\ TestIdle /\ ConvIdle /\ ScriptIdle /\ ModelIdle
ResultSpec == ResultSpecInit /\ [][ResultNext]_vars

ModelSpecInit == ModelInit /\ CleanIdle /\ OutlierIdle /\ TestIdle /\ ConvIdle /\ ScriptIdle /\ ResultIdle
ModelSpec == ModelSpecInit /\ [][ModelNext]_vars

====
